---- MODULE Spec2Model ----
(***************************************************************************)
(* A state-machine model of the ReasoningBank learning pipeline            *)
(* (src/unnamed/part_004, class ReasoningBank): RETRIEVE (MMR), JUDGE,     *)
(* DISTILL, CONSOLIDATE, and its pattern and trajectory management.        *)
(* With it, in their own sections: the MemoryGraph (PageRank, communities, *)
(* graph-aware ranking) and the cache-optimizer's CircuitBreaker.          *)
(*                                                                         *)
(* Numbers.  Qualities and rewards are held in hundredths (0.6 is 60).     *)
(* Embeddings are integer vectors; every embedding the model uses has an   *)
(* integral Euclidean norm (65 or 0), so that Math.sqrt is exact and a     *)
(* cosine similarity is an exact multiple of 1/SimScale.  Similarities are *)
(* held as integers in units of 1/SimScale, MMR scores in units of         *)
(* 1/(10*SimScale).  A successRate is the exact fraction [num, den].       *)
(*                                                                         *)
(* A JavaScript Map is a sequence in insertion order: delete removes the   *)
(* entry and keeps the order of the others, set on an existing key         *)
(* replaces the value in place.                                            *)
(*                                                                         *)
(* Not modelled: the retrieval/distillation timing counters, the text      *)
(* fields (strategy, keyLearnings, strengths, weaknesses, improvements,    *)
(* pattern name) and the timestamps and qualities recorded inside an       *)
(* evolutionHistory entry; no operation reads them back.                   *)
(***************************************************************************)
EXTENDS Integers, Sequences, FiniteSets, TLC

\* ------------------------------------------------------------------ bounds

\* The number of memories distill may create in one behaviour (memory ids
\* are fresh, 1..MaxMemories).
MaxMemories == 3

\* ------------------------------------------------------- program constants

\* DEFAULT_CONFIG.retrievalK
retrievalK == 3
\* DEFAULT_CONFIG.mmrLambda, in tenths
mmrLambdaDefault == 7
\* DEFAULT_CONFIG.dedupThreshold, in hundredths
dedupThreshold == 95
\* The distillationThreshold the bank is constructed with, in hundredths.
\* (The default is 0.6; with it and qualities in 0..1 no two distilled
\* memories can differ by more than 0.4, and contradiction detection never
\* fires.  The model constructs the bank with {distillationThreshold: 0.5}.)
distillationThreshold == 50
\* DEFAULT_CONFIG.maxPatternAgeDays
maxPatternAgeDays == 30
\* Float32Array(768) of computeAggregateEmbedding
EmptyEmbeddingDim == 768

\* The unit of a similarity: every embedding of the model has norm 65 or 0.
SimScale == 65 * 65

\* -------------------------------------------------------------- VectorMath

RECURSIVE DotFrom(_, _, _)
DotFrom(a, b, i) ==
    IF i > Len(a) THEN 0 ELSE a[i] * b[i] + DotFrom(a, b, i + 1)

\* Newton's iteration for the integer square root, from a guess r >= sqrt(n)
RECURSIVE SqrtFrom(_, _)
SqrtFrom(n, r) ==
    IF r * r <= n THEN r ELSE SqrtFrom(n, (r + n \div r) \div 2)

\* Math.sqrt, exact on the perfect squares the model feeds it
Sqrt(n) == IF n = 0 THEN 0 ELSE SqrtFrom(n, n)

\* cosineSimilarity(a, b), in units of 1/SimScale: 0 on a dimension
\* mismatch and on a zero norm
cosineSimilarity(a, b) ==
    IF Len(a) # Len(b) THEN 0
    ELSE LET dot == DotFrom(a, b, 1)
             normA == DotFrom(a, a, 1)
             normB == DotFrom(b, b, 1)
             denom == Sqrt(normA) * Sqrt(normB)
         IN IF denom > 0 THEN (dot * SimScale) \div denom ELSE 0

Max(x, y) == IF x >= y THEN x ELSE y

\* computeMaxSimilarity(entry, selected): the largest similarity of an
\* embedding to the embeddings of a list of entries, 0 for the empty list
RECURSIVE MaxSimFrom(_, _, _, _)
MaxSimFrom(emb, selected, i, maxSim) ==
    IF i > Len(selected) THEN maxSim
    ELSE MaxSimFrom(emb, selected, i + 1,
                    Max(maxSim, cosineSimilarity(emb, selected[i].embedding)))

computeMaxSimilarity(emb, selected) == MaxSimFrom(emb, selected, 1, 0)

\* ------------------------------------------------- the trajectories offered

\* The Trajectory objects callers hold.  A trajectory's steps, domain,
\* qualityScore and isComplete do not change in a behaviour; verdict and
\* distilledMemory are set by judge and distill and are state.  verdict0 is
\* the verdict the caller's object carries when first seen ("none": unset;
\* tB, tC and tG were judged before, with the verdict judge gives them).
TrajIds == {"tA", "tB", "tC", "tD", "tE", "tF", "tG"}

Step(reward, stateAfter) == [reward |-> reward, stateAfter |-> stateAfter]

\* Further trajectories judge and distill are called with: tH has no
\* steps, tI sits on the quality threshold, three of the five steps of tJ
\* have a reward above 0.5, tK is just below the quality threshold, the
\* state vectors of tL are zero
JudgeTrajIds == {"tH", "tI", "tJ", "tK", "tL"}

Trajectory ==
    [t \in TrajIds \cup JudgeTrajIds |->
       CASE t = "tA" -> [domain |-> "code", qualityScore |-> 100, isComplete |-> TRUE,
                         steps |-> <<Step(90, <<65, 0>>)>>, verdict0 |-> "none"]
         [] t = "tB" -> [domain |-> "code", qualityScore |-> 80, isComplete |-> TRUE,
                         steps |-> <<Step(60, <<63, 16>>), Step(90, <<63, 16>>)>>,
                         verdict0 |-> "success"]
         [] t = "tC" -> [domain |-> "test", qualityScore |-> 55, isComplete |-> TRUE,
                         steps |-> <<Step(80, <<60, 25>>), Step(40, <<60, 25>>),
                                     Step(70, <<60, 25>>)>>,
                         verdict0 |-> "success"]
         [] t = "tD" -> [domain |-> "test", qualityScore |-> 80, isComplete |-> TRUE,
                         steps |-> <<Step(20, <<0, 65>>), Step(60, <<0, 65>>)>>,
                         verdict0 |-> "none"]
         [] t = "tE" -> [domain |-> "", qualityScore |-> 30, isComplete |-> FALSE,
                         steps |-> <<>>, verdict0 |-> "none"]
         [] t = "tF" -> [domain |-> "code", qualityScore |-> 40, isComplete |-> TRUE,
                         steps |-> <<Step(90, <<65, 0>>)>>, verdict0 |-> "success"]
         [] t = "tG" -> [domain |-> "ops", qualityScore |-> 70, isComplete |-> TRUE,
                         steps |-> <<Step(90, <<0 - 63, 16>>)>>, verdict0 |-> "success"]
         [] t = "tH" -> [domain |-> "code", qualityScore |-> 90, isComplete |-> TRUE,
                         steps |-> <<>>, verdict0 |-> "none"]
         [] t = "tI" -> [domain |-> "code", qualityScore |-> 50, isComplete |-> TRUE,
                         steps |-> <<Step(60, <<10, 20, 40>>), Step(51, <<20, 10, 40>>),
                                     Step(50, <<30, 30, 10>>)>>,
                         verdict0 |-> "none"]
         [] t = "tJ" -> [domain |-> "test", qualityScore |-> 90, isComplete |-> TRUE,
                         steps |-> <<Step(90, <<0, 65>>), Step(10, <<0, 65>>),
                                     Step(80, <<0, 65>>), Step(20, <<0, 65>>),
                                     Step(70, <<0, 65>>)>>,
                         verdict0 |-> "none"]
         [] t = "tK" -> [domain |-> "ops", qualityScore |-> 49, isComplete |-> TRUE,
                         steps |-> <<Step(90, <<16, 63>>)>>, verdict0 |-> "none"]
         [] t = "tL" -> [domain |-> "ops", qualityScore |-> 80, isComplete |-> TRUE,
                         steps |-> <<Step(90, <<0, 0>>)>>, verdict0 |-> "none"]]

\* The query embeddings retrieve is called with
Queries == {<<65, 0>>, <<16, 63>>}

\* The k retrieve is called with, as the list of the optional argument: <<>>
\* is the omitted k.
Ks == {<<>>, <<0>>, <<1>>, <<2>>}

\* The configurations the bank is constructed with.
Configs ==
    [mmrLambda : {mmrLambdaDefault},
     enableContradictionDetection : {TRUE},
     eventListeners : {<<>>}]

\* ------------------------------------------------------------------- state

VARIABLES
    config,          \* this.config (the fields that vary between banks), and
                     \* this.eventListeners as registered before the first call
    memories,        \* this.memories: sequence of MemoryEntry, insertion order
    nextMemId,       \* the next fresh memoryId
    verdict,         \* trajectory.verdict per Trajectory object
    distilledMemory, \* trajectory.distilledMemory per object: a memoryId, 0 unset
    awaiting,        \* distill calls suspended at `await this.judge(...)`
    trajectories,    \* this.trajectories: sequence of trajectory ids, insertion order
    patterns,        \* this.patterns: sequence of Pattern, insertion order
    now,             \* Date.now(), in days
    promotions,      \* the number of memoryToPattern calls made so far
    last,            \* the last call made and what it returned (for a
                     \* consolidate also the call before it)
    nodes,           \* MemoryGraph: the ids of the nodes
    edges,           \* MemoryGraph: the edges [source, target, type, weight]
    dirty,           \* MemoryGraph: mutated since the last computePageRank
    pageRanks,       \* MemoryGraph: the cached rank of each ranked node
    communities,     \* MemoryGraph: the cached label of each labelled node
    offered          \* the weights passed to addEdge for each stored edge

\* ---------------------------------------------------------- CircuitBreaker
\* (cache-optimizer/src/handoff/circuit-breaker.ts)

\* The breaker is constructed with a small configuration over the defaults;
\* times are in ticks of the clock.
failureThreshold == 2
recoveryTimeout == 2
successThreshold == 2
failureWindow == 3
minimumRequests == 3

\* DEFAULT_CONFIG.failureRateThreshold: 0.5, in hundredths
failureRateThreshold == 50

\* The clock and the request counter are cut off here
MaxTime == 5
MaxRequests == 5

\* `recoveryTimer` when no timeout is pending
NoTimer == 0 - 1

VARIABLES
    breaker,         \* the CircuitBreaker: state, failures (timestamps),
                     \* successes, lastStateChange, totalRequests,
                     \* recoveryTimer (the time the pending timeout is due, or
                     \* NoTimer) and the events whose listener throws
    dateNow,         \* Date.now()
    successCalls     \* history: the recordSuccess calls made in half-open
                     \* since the breaker last entered it

breakerVars == <<breaker, dateNow, successCalls>>

\* The field initialisers and the constructor, with the listeners
\* registered before the first call
NewBreaker(throwing) ==
    [state |-> "closed", failures |-> <<>>, successes |-> 0,
     lastStateChange |-> 0, totalRequests |-> 0, recoveryTimer |-> NoTimer,
     throwing |-> throwing]

InitBreaker(throwingSets) ==
    /\ breaker \in {NewBreaker(th) : th \in throwingSets}
    /\ dateNow = 0
    /\ successCalls = 0

\* ---------------------------------------------------------------- EventBus
\* (src/unnamed/part_000, class EventBus)

\* The publish calls and the subscriptions of one behaviour
MaxPublishes == 2
MaxSubscriptions == 2

VARIABLES
    handlers,          \* this.handlers: event type -> the entries subscribed,
                       \* in insertion order (a Set iterates in that order)
    wildcardHandlers,  \* this.wildcardHandlers, in insertion order
    subscriptions,     \* the Subscription objects handed out, in order; an
                       \* entry is known by the place of its subscription
    publishes,         \* the publish calls: event, position, outcome
    busLog             \* the calls made on the event store and the
                       \* dispatcher, in order

busVars == <<handlers, wildcardHandlers, subscriptions, publishes, busLog>>

EventTypes == {"TaskCreated", "TaskFailed"}

\* The field initialisers of EventBus
InitBus ==
    /\ handlers = [t \in EventTypes |-> <<>>]
    /\ wildcardHandlers = <<>>
    /\ subscriptions = <<>>
    /\ publishes = <<>>
    /\ busLog = <<>>

\* ------------------------------------------------------------- TaskManager
\* (src/v3/__tests__/unit/core/task-manager.test.ts, class TaskManager)

\* The calls made on the task manager in one behaviour
MaxTaskCalls == 3

VARIABLES
    tasks,           \* the repository: task id -> status, "absent" if the
                     \* repository holds no task of that id
    taskCalls,       \* the create, execute and cancel calls: task, position
                     \* (the collaborator call awaited), outcome
    executorLog,     \* the calls made on the executor, in order
    published        \* the events handed to the event publisher, in order

taskVars == <<tasks, taskCalls, executorLog, published>>

\* The ids the idGenerator hands out
TaskIds == {"task-1", "task-2"}

\* The repository, the executor and the publisher before the first call
InitTasks ==
    /\ tasks = [id \in TaskIds |-> "absent"]
    /\ taskCalls = <<>>
    /\ executorLog = <<>>
    /\ published = <<>>

memVars == <<memories, nextMemId>>
trajVars == <<verdict, distilledMemory, awaiting>>
patVars == <<trajectories, patterns, promotions>>

graphVars == <<nodes, edges, dirty, pageRanks, communities, offered>>

bankVars == <<config, memories, nextMemId, verdict, distilledMemory, awaiting,
              trajectories, patterns, now, promotions>>

vars == <<config, memories, nextMemId, verdict, distilledMemory, awaiting,
          trajectories, patterns, now, promotions, last,
          nodes, edges, dirty, pageRanks, communities, offered,
          breaker, dateNow, successCalls,
          handlers, wildcardHandlers, subscriptions, publishes, busLog,
          tasks, taskCalls, executorLog, published>>

Init ==
    /\ config \in Configs
    /\ memories = <<>>
    /\ nextMemId = 1
    /\ verdict = [t \in TrajIds |-> Trajectory[t].verdict0]
    /\ distilledMemory = [t \in TrajIds |-> 0]
    /\ awaiting = {}
    /\ trajectories = <<>>
    /\ patterns = <<>>
    /\ now = 0
    /\ promotions = 0
    /\ last = [op |-> "new"]
    /\ nodes = {}
    /\ edges = {}
    /\ dirty = TRUE
    /\ pageRanks = <<>>
    /\ communities = <<>>
    /\ offered = {}
    /\ InitBreaker({{}})
    /\ InitBus
    /\ InitTasks

\* ------------------------------------------------------------------- JUDGE

\* analyzeSteps(steps): the number of steps and of steps with reward > 0.5
\* (positiveRatio is positiveSteps / totalSteps, 0 for no steps)
analyzeSteps(steps) ==
    [totalSteps |-> Len(steps),
     positiveSteps |-> Cardinality({i \in 1..Len(steps) : steps[i].reward > 50})]

PositiveRatioAtLeast(analysis) ==
    /\ analysis.totalSteps > 0
    /\ analysis.positiveSteps * 10 >= 6 * analysis.totalSteps

\* positiveRatio > 0.6
PositiveRatioHigh(analysis) ==
    /\ analysis.totalSteps > 0
    /\ analysis.positiveSteps * 10 > 6 * analysis.totalSteps

\* The success field of the verdict judge computes
JudgeSuccess(t) ==
    /\ Trajectory[t].qualityScore >= distillationThreshold
    /\ PositiveRatioHigh(analyzeSteps(Trajectory[t].steps))

JudgedVerdict(t) == IF JudgeSuccess(t) THEN "success" ELSE "failure"

judgeUnchecked(t) ==
    /\ verdict' = [verdict EXCEPT ![t] = JudgedVerdict(t)]
    /\ last' = [op |-> "judge", traj |-> t, result |-> JudgedVerdict(t)]
    /\ UNCHANGED <<graphVars, breakerVars, busVars, taskVars, config, memories, nextMemId, distilledMemory, awaiting, patVars, now>>

\* judge(trajectory): throws on an incomplete trajectory, otherwise
\* attaches the verdict (again, if there is one already)
judge(t) ==
    /\ IF ~Trajectory[t].isComplete
       THEN /\ last' = [op |-> "judge", traj |-> t, result |-> "error"]
            /\ UNCHANGED verdict
       ELSE /\ verdict' = [verdict EXCEPT ![t] = JudgedVerdict(t)]
            /\ last' = [op |-> "judge", traj |-> t, result |-> JudgedVerdict(t)]
    /\ UNCHANGED <<graphVars, breakerVars, busVars, taskVars, config, memories, nextMemId, distilledMemory, awaiting, patVars, now>>

\* ----------------------------------------------------------------- DISTILL

RECURSIVE WeightedSumFrom(_, _, _)
WeightedSumFrom(steps, j, i) ==
    IF i > Len(steps) THEN 0
    ELSE steps[i].stateAfter[j] * i + WeightedSumFrom(steps, j, i + 1)

computeAggregateEmbeddingEmpty(t) == [j \in 1..EmptyEmbeddingDim |-> 0]

\* computeAggregateEmbedding(trajectory): the average of the steps'
\* stateAfter with weight (i+1)/N for step i (0-based), divided by the
\* total weight; the common factor 1/N is cancelled.  768 zeros for a
\* trajectory without steps.
computeAggregateEmbedding(t) ==
    LET steps == Trajectory[t].steps
        n == Len(steps)
    IN IF n = 0 THEN [j \in 1..EmptyEmbeddingDim |-> 0]
       ELSE [j \in 1..Len(steps[1].stateAfter) |->
               WeightedSumFrom(steps, j, 1) \div ((n * (n + 1)) \div 2)]

DistillRejectsOnVerdictOnly(v, t) == v # "success"

\* `!trajectory.verdict.success || qualityScore < distillationThreshold`:
\* distill returns null
DistillRejects(v, t) ==
    \/ v # "success"
    \/ Trajectory[t].qualityScore < distillationThreshold

\* The MemoryEntry distill stores
NewEntry(t, id) ==
    [memoryId |-> id,
     trajectoryId |-> t,
     embedding |-> computeAggregateEmbedding(t),
     quality |-> Trajectory[t].qualityScore,
     usageCount |-> 0,
     consolidated |-> FALSE]

\* distill from `Only distill successful trajectories` on
DistillRest(t) ==
    IF DistillRejects(verdict[t], t)
    THEN /\ last' = [op |-> "distill", traj |-> t, result |-> "null"]
         /\ UNCHANGED <<memories, nextMemId, distilledMemory>>
    ELSE /\ nextMemId <= MaxMemories
         /\ memories' = Append(memories, NewEntry(t, nextMemId))
         /\ distilledMemory' = [distilledMemory EXCEPT ![t] = nextMemId]
         /\ nextMemId' = nextMemId + 1
         /\ last' = [op |-> "distill", traj |-> t, result |-> "memory",
                     memoryId |-> nextMemId]

\* distill(trajectory), up to its return or to its suspension at
\* `await this.judge(trajectory)`: an unjudged trajectory is judged first
\* (judge throws if it is incomplete) and the call resumes in a later turn
distill(t) ==
    /\ IF verdict[t] = "none"
       THEN IF ~Trajectory[t].isComplete
            THEN /\ last' = [op |-> "distill", traj |-> t, result |-> "error"]
                 /\ UNCHANGED <<verdict, awaiting, memories, nextMemId, distilledMemory>>
            ELSE /\ verdict' = [verdict EXCEPT ![t] = JudgedVerdict(t)]
                 /\ awaiting' = awaiting \cup {t}
                 /\ last' = [op |-> "distill", traj |-> t, result |-> "pending"]
                 /\ UNCHANGED <<memories, nextMemId, distilledMemory>>
       ELSE /\ DistillRest(t)
            /\ UNCHANGED <<verdict, awaiting>>
    /\ UNCHANGED <<graphVars, breakerVars, busVars, taskVars, config, patVars, now>>

\* a distill call suspended at the await resumes
distillResume(t) ==
    /\ t \in awaiting
    /\ awaiting' = awaiting \ {t}
    /\ DistillRest(t)
    /\ UNCHANGED <<graphVars, breakerVars, busVars, taskVars, config, verdict, patVars, now>>

\* ---------------------------------------------------------------- RETRIEVE

\* The candidate retrieve builds for a memory entry
Candidate(entry, query) ==
    [entry |-> entry, relevance |-> cosineSimilarity(query, entry.embedding)]

\* candidates.sort((a, b) => b.relevance - a.relevance): Array.prototype.sort
\* is stable, so it is an insertion of each element after every element
\* that is not less relevant
InsertByRelevance(sorted, c) ==
    LET before == Cardinality({i \in 1..Len(sorted) : sorted[i].relevance >= c.relevance})
    IN SubSeq(sorted, 1, before) \o <<c>> \o SubSeq(sorted, before + 1, Len(sorted))

RECURSIVE SortByRelevanceFrom(_, _, _)
SortByRelevanceFrom(cands, i, sorted) ==
    IF i > Len(cands) THEN sorted
    ELSE SortByRelevanceFrom(cands, i + 1, InsertByRelevance(sorted, cands[i]))

SortByRelevance(cands) == SortByRelevanceFrom(cands, 1, <<>>)

\* The two weights exchanged
MmrScoreWeightsSwapped(lambda, relevance, maxSimilarity) ==
    (10 - lambda) * relevance + lambda * (SimScale - maxSimilarity)

\* mmrScore = mmrLambda * relevance + (1 - mmrLambda) * diversityScore, in
\* units of 1/(10*SimScale)
MmrScore(lambda, relevance, maxSimilarity) ==
    lambda * relevance + (10 - lambda) * (SimScale - maxSimilarity)

\* -Infinity: below every MMR score
NegInfinity == 0 - (20 * SimScale) - 1

MmrBetterOrEqual(mmrScore, bestScore) == mmrScore >= bestScore

\* `if (mmrScore > bestScore)`: the candidate replaces the best so far
MmrBetter(mmrScore, bestScore) == mmrScore > bestScore

\* The scan of one selection round: the index and score of the best
\* candidate
RECURSIVE ScanBest(_, _, _, _, _)
ScanBest(lambda, cands, selected, i, best) ==
    IF i > Len(cands) THEN best
    ELSE LET mmrScore == MmrScore(lambda, cands[i].relevance,
                                  computeMaxSimilarity(cands[i].entry.embedding, selected))
         IN ScanBest(lambda, cands, selected, i + 1,
                     IF MmrBetter(mmrScore, best.score)
                     THEN [idx |-> i, score |-> mmrScore]
                     ELSE best)

RemoveAtKeepsAll(s, i) == SubSeq(s, 1, i - 1) \o SubSeq(s, i, Len(s))

\* candidates.splice(bestIdx, 1)
RemoveAt(s, i) == SubSeq(s, 1, i - 1) \o SubSeq(s, i + 1, Len(s))

\* `while (results.length < retrieveK && candidates.length > 0)`
RECURSIVE MmrLoop(_, _, _, _, _)
MmrLoop(lambda, cands, selected, results, retrieveK) ==
    IF ~(Len(results) < retrieveK /\ Len(cands) > 0) THEN results
    ELSE LET best == ScanBest(lambda, cands, selected, 1,
                              [idx |-> 1, score |-> NegInfinity])
             chosen == cands[best.idx]
         IN MmrLoop(lambda, RemoveAt(cands, best.idx),
                    Append(selected, chosen.entry),
                    Append(results,
                           [memoryId |-> chosen.entry.memoryId,
                            relevanceScore |-> chosen.relevance,
                            diversityScore |->
                                SimScale - computeMaxSimilarity(chosen.entry.embedding,
                                                                selected),
                            combinedScore |-> best.score]),
                    retrieveK)

\* The entries retrieve draws its candidates from: `this.memories.values()`
RetrievalPool(mem) == mem

\* The list retrieve(queryEmbedding, k) returns from the store `mem`
Retrieve(cfg, mem, query, k) ==
    LET retrieveK == IF k = <<>> THEN retrievalK ELSE k[1]
        pool == RetrievalPool(mem)
    IN IF Len(mem) = 0 THEN <<>>
       ELSE MmrLoop(cfg.mmrLambda,
                    SortByRelevance([i \in 1..Len(pool) |-> Candidate(pool[i], query)]),
                    <<>>, <<>>, retrieveK)

retrieve(query, k) ==
    /\ last' = [op |-> "retrieve", query |-> query, k |-> k,
                results |-> Retrieve(config, memories, query, k)]
    /\ UNCHANGED <<graphVars, breakerVars, busVars, taskVars, config, memVars, trajVars, patVars, now>>

\* ------------------------------------------------------ trajectory storage

\* DEFAULT_CONFIG.maxTrajectories is 5000; the model's bank is constructed
\* with a small maxTrajectories.
maxTrajectories == 3

\* The position of a key in a Map, 0 if absent
IndexOfTraj(store, t) ==
    IF \E i \in 1..Len(store) : store[i] = t
    THEN CHOOSE i \in 1..Len(store) : store[i] = t
    ELSE 0

InsertByQualityDescending(sorted, t) ==
    LET before == Cardinality({i \in 1..Len(sorted) :
                       Trajectory[sorted[i]].qualityScore >= Trajectory[t].qualityScore})
    IN SubSeq(sorted, 1, before) \o <<t>> \o SubSeq(sorted, before + 1, Len(sorted))

\* entries.sort((a, b) => a[1].qualityScore - b[1].qualityScore), stable
InsertByQuality(sorted, t) ==
    LET before == Cardinality({i \in 1..Len(sorted) :
                       Trajectory[sorted[i]].qualityScore <= Trajectory[t].qualityScore})
    IN SubSeq(sorted, 1, before) \o <<t>> \o SubSeq(sorted, before + 1, Len(sorted))

RECURSIVE SortByQualityFrom(_, _, _)
SortByQualityFrom(store, i, sorted) ==
    IF i > Len(store) THEN sorted
    ELSE SortByQualityFrom(store, i + 1, InsertByQuality(sorted, store[i]))

pruneTrajectoriesDropsNewest(store) == SubSeq(store, 1, maxTrajectories)

\* pruneTrajectories(): delete the lowest-quality trajectories down to
\* floor(0.8 * maxTrajectories)
pruneTrajectories(store) ==
    LET entries == SortByQualityFrom(store, 1, <<>>)
        toRemove == Len(entries) - ((maxTrajectories * 8) \div 10)
        gone == {entries[i] : i \in {i \in 1..Len(entries) : i <= toRemove}}
    IN SelectSeq(store, LAMBDA t : t \notin gone)

\* storeTrajectory(trajectory)
storeTrajectory(t) ==
    /\ LET set == IF IndexOfTraj(trajectories, t) > 0 THEN trajectories
                  ELSE Append(trajectories, t)
       IN trajectories' = IF Len(set) > maxTrajectories THEN pruneTrajectories(set)
                          ELSE set
    /\ last' = [op |-> "storeTrajectory", traj |-> t, before |-> trajectories]
    /\ UNCHANGED <<graphVars, breakerVars, busVars, taskVars, config, memVars, trajVars, patterns, promotions, now>>

\* -------------------------------------------------------- pattern management

\* `if (pattern.qualityHistory.length > 100)`, `.slice(-100)`
QualityHistoryCap == 100

RECURSIVE SumFrom(_, _)
SumFrom(s, i) == IF i > Len(s) THEN 0 ELSE s[i] + SumFrom(s, i + 1)

Sum(s) == SumFrom(s, 1)

\* A successRate is the fraction num/den, den > 0
Frac(num, den) == [num |-> num, den |-> den]

FracGeq(a, b) == a.num * b.den >= b.num * a.den

FracLess(a, b) == a.num * b.den < b.num * a.den

FracEq(a, b) == a.num * b.den = b.num * a.den

\* The DistilledMemory objects memoryToPattern is called with.  They are
\* objects the caller holds (returned by earlier distill calls, their
\* usageCount incremented by the caller on reuse).
SeedMemory(id, t, embedding, quality, usageCount) ==
    [memoryId |-> id, trajectoryId |-> t, embedding |-> embedding,
     quality |-> quality, usageCount |-> usageCount]

SeedMemories ==
    {SeedMemory(11, "tA", <<65, 0>>, 90, 5),
     SeedMemory(12, "tB", <<63, 16>>, 80, 2),
     SeedMemory(13, "tC", <<60, 25>>, 70, 1)}

\* inferDomain(memory): the stored trajectory's domain, 'general' if the
\* trajectory is not stored or its domain is empty
inferDomain(memory) ==
    IF IndexOfTraj(trajectories, memory.trajectoryId) > 0
       /\ Trajectory[memory.trajectoryId].domain # ""
    THEN Trajectory[memory.trajectoryId].domain
    ELSE "general"

\* Map.set: replace the value of an existing key in place, else append
SetPattern(pats, pattern) ==
    IF \E i \in 1..Len(pats) : pats[i].patternId = pattern.patternId
    THEN [i \in 1..Len(pats) |->
            IF pats[i].patternId = pattern.patternId THEN pattern ELSE pats[i]]
    ELSE Append(pats, pattern)

\* memoryToPattern(memory); the patternId `pat_<memoryId>` is the memoryId
memoryToPattern(memory) ==
    /\ patterns' = SetPattern(patterns,
                     [patternId |-> memory.memoryId,
                      domain |-> inferDomain(memory),
                      embedding |-> memory.embedding,
                      successRate |-> Frac(memory.quality, 1),
                      usageCount |-> memory.usageCount,
                      qualityHistory |-> <<memory.quality>>,
                      evolutionHistory |-> <<>>,
                      updatedAt |-> now])
    /\ promotions' = promotions + 1
    /\ last' = [op |-> "memoryToPattern", patternId |-> memory.memoryId]
    /\ UNCHANGED <<graphVars, breakerVars, busVars, taskVars, config, memVars, trajVars, trajectories, now>>

\* determineEvolutionType with another type for a small delta
determineEvolutionTypeSplit(prev, curr) ==
    LET deltaNum == curr.num * prev.den - prev.num * curr.den
        deltaDen == curr.den * prev.den
    IN IF deltaNum > 5 * deltaDen THEN "improvement"
       ELSE IF deltaNum < (0 - 10) * deltaDen THEN "prune"
       ELSE "split"

\* determineEvolutionType(prev, curr): delta > 0.05 improvement,
\* delta < -0.1 prune, else improvement
determineEvolutionType(prev, curr) ==
    LET deltaNum == curr.num * prev.den - prev.num * curr.den
        deltaDen == curr.den * prev.den
    IN IF deltaNum > 5 * deltaDen THEN "improvement"
       ELSE IF deltaNum < (0 - 10) * deltaDen THEN "prune"
       ELSE "improvement"

\* qualityHistory after the push and the cap of evolvePattern
PushQuality(history, q) ==
    LET pushed == Append(history, q)
    IN IF Len(pushed) > QualityHistoryCap
       THEN SubSeq(pushed, Len(pushed) - QualityHistoryCap + 1, Len(pushed))
       ELSE pushed

\* The pattern evolvePattern leaves for the experience trajectory t
Evolved(pattern, t) ==
    LET history == PushQuality(pattern.qualityHistory, Trajectory[t].qualityScore)
        rate == Frac(Sum(history), Len(history))
    IN [pattern EXCEPT
          !.qualityHistory = history,
          !.successRate = rate,
          !.usageCount = pattern.usageCount + 1,
          !.updatedAt = now,
          !.evolutionHistory =
              Append(pattern.evolutionHistory,
                     [type |-> determineEvolutionType(pattern.successRate, rate),
                      ref |-> t])]

\* evolvePattern(patternId, newExperience): nothing for an unknown id
evolvePattern(id, t) ==
    /\ IF \E i \in 1..Len(patterns) : patterns[i].patternId = id
       THEN patterns' = [i \in 1..Len(patterns) |->
                           IF patterns[i].patternId = id
                           THEN Evolved(patterns[i], t) ELSE patterns[i]]
       ELSE UNCHANGED patterns
    /\ last' = [op |-> "evolvePattern", patternId |-> id, traj |-> t]
    /\ UNCHANGED <<graphVars, breakerVars, busVars, taskVars, config, memVars, trajVars, trajectories, promotions, now>>

\* ------------------------------------------------------------- CONSOLIDATE

\* `sim > this.config.dedupThreshold`
IsDuplicate(sim) == sim * 100 > dedupThreshold * SimScale

DedupLoserStrict(entries, i, j) ==
    IF entries[i].quality > entries[j].quality THEN j ELSE i

\* The index deduplicateMemories deletes of a duplicate pair i < j: j when
\* entry i has at least the quality of entry j, else i
DedupLoser(entries, i, j) ==
    IF entries[i].quality >= entries[j].quality THEN j ELSE i

\* The double loop of deduplicateMemories over the snapshot `entries`:
\* `gone` are the memoryIds deleted so far, `removed` is the counter
RECURSIVE DedupLoop(_, _, _, _)
DedupLoop(entries, i, j, acc) ==
    IF i > Len(entries) THEN acc
    ELSE IF j > Len(entries) THEN DedupLoop(entries, i + 1, i + 2, acc)
    ELSE IF IsDuplicate(cosineSimilarity(entries[i].embedding, entries[j].embedding))
    THEN DedupLoop(entries, i, j + 1,
                   [gone |-> acc.gone \cup {entries[DedupLoser(entries, i, j)].memoryId},
                    removed |-> acc.removed + 1])
    ELSE DedupLoop(entries, i, j + 1, acc)

deduplicateMemoriesCountOnly(mem) ==
    [mem |-> mem,
     removed |-> DedupLoop(mem, 1, 2, [gone |-> {}, removed |-> 0]).removed]

\* deduplicateMemories(): the store it leaves and the number it returns
deduplicateMemories(mem) ==
    LET r == DedupLoop(mem, 1, 2, [gone |-> {}, removed |-> 0])
    IN [mem |-> SelectSeq(mem, LAMBDA e : e.memoryId \notin r.gone),
        removed |-> r.removed]

\* `sim > 0.8` and `qualityDiff > 0.4`
Abs(x) == IF x < 0 THEN 0 - x ELSE x

IsContradiction(ei, ej) ==
    /\ cosineSimilarity(ei.embedding, ej.embedding) * 100 > 80 * SimScale
    /\ Abs(ei.quality - ej.quality) > 40

\* The index detectContradictions marks of a contradictory pair i < j
ContradictionLoser(entries, i, j) ==
    IF entries[i].quality < entries[j].quality THEN i ELSE j

RECURSIVE ContradictionLoop(_, _, _, _)
ContradictionLoop(entries, i, j, acc) ==
    IF i > Len(entries) THEN acc
    ELSE IF j > Len(entries) THEN ContradictionLoop(entries, i + 1, i + 2, acc)
    ELSE IF IsContradiction(entries[i], entries[j])
    THEN ContradictionLoop(entries, i, j + 1,
                   [marked |-> acc.marked \cup {ContradictionLoser(entries, i, j)},
                    contradictions |-> acc.contradictions + 1])
    ELSE ContradictionLoop(entries, i, j + 1, acc)

detectContradictionsDeletes(mem) ==
    LET r == ContradictionLoop(mem, 1, 2, [marked |-> {}, contradictions |-> 0])
    IN [mem |-> SelectSeq([i \in 1..Len(mem) |->
                              IF i \in r.marked THEN [mem[i] EXCEPT !.consolidated = TRUE]
                              ELSE mem[i]],
                          LAMBDA e : ~e.consolidated),
        contradictions |-> r.contradictions]

\* detectContradictions(): the store it leaves and the number it returns
detectContradictions(mem) ==
    LET r == ContradictionLoop(mem, 1, 2, [marked |-> {}, contradictions |-> 0])
    IN [mem |-> [i \in 1..Len(mem) |->
                   IF i \in r.marked THEN [mem[i] EXCEPT !.consolidated = TRUE]
                   ELSE mem[i]],
        contradictions |-> r.contradictions]

IsStaleOrUnused(pattern, clock) ==
    \/ clock - pattern.updatedAt > maxPatternAgeDays
    \/ pattern.usageCount < 5

\* pruneOldPatterns(): `age > maxAge && pattern.usageCount < 5`
IsStale(pattern, clock) ==
    /\ clock - pattern.updatedAt > maxPatternAgeDays
    /\ pattern.usageCount < 5

pruneOldPatterns(pats, clock) ==
    [pats |-> SelectSeq(pats, LAMBDA p : ~IsStale(p, clock)),
     pruned |-> Cardinality({i \in 1..Len(pats) : IsStale(pats[i], clock)})]

\* `sim > 0.9 && patterns[i][1].domain === patterns[j][1].domain`
ShouldMerge(pi, pj) ==
    /\ cosineSimilarity(pi.embedding, pj.embedding) * 100 > 90 * SimScale
    /\ pi.domain = pj.domain

\* The index mergePatterns keeps of a pair i < j: i when its successRate is
\* at least that of j
MergeKeep(objs, i, j) ==
    IF FracGeq(objs[i].successRate, objs[j].successRate) THEN i ELSE j

\* ... and the index it removes
MergeRemove(objs, i, j) ==
    IF FracLess(objs[i].successRate, objs[j].successRate) THEN i ELSE j

\* `Combine statistics`: the kept object after absorbing the removed one
Absorb(keep, remove) ==
    [keep EXCEPT
       !.usageCount = keep.usageCount + remove.usageCount,
       !.qualityHistory = keep.qualityHistory \o remove.qualityHistory,
       !.evolutionHistory = Append(keep.evolutionHistory,
                                   [type |-> "merge", ref |-> remove.patternId])]

\* The double loop of mergePatterns over the snapshot: `objs` are the
\* snapshot's pattern objects (mutated in place, also after their deletion
\* from the Map), `gone` the patternIds deleted, `merged` the counter
RECURSIVE MergeLoop(_, _, _)
MergeLoop(i, j, acc) ==
    IF i > Len(acc.objs) THEN acc
    ELSE IF j > Len(acc.objs) THEN MergeLoop(i + 1, i + 2, acc)
    ELSE IF ShouldMerge(acc.objs[i], acc.objs[j])
    THEN LET k == MergeKeep(acc.objs, i, j)
             r == MergeRemove(acc.objs, i, j)
         IN MergeLoop(i, j + 1,
                [objs |-> [acc.objs EXCEPT ![k] = Absorb(acc.objs[k], acc.objs[r])],
                 gone |-> acc.gone \cup {acc.objs[r].patternId},
                 merged |-> acc.merged + 1])
    ELSE MergeLoop(i, j + 1, acc)

\* mergePatterns(): the patterns it leaves and the number it returns
mergePatterns(pats) ==
    LET r == MergeLoop(1, 2, [objs |-> pats, gone |-> {}, merged |-> 0])
    IN [pats |-> SelectSeq(r.objs, LAMBDA p : p.patternId \notin r.gone),
        merged |-> r.merged]

\* The four phases of consolidate() on a store and a pattern map
Consolidated(cfg, mem, pats, clock) ==
    LET dedup == deduplicateMemories(mem)
        contra == IF cfg.enableContradictionDetection
                  THEN detectContradictions(dedup.mem)
                  ELSE [mem |-> dedup.mem, contradictions |-> 0]
        pruned == pruneOldPatterns(pats, clock)
        merged == mergePatterns(pruned.pats)
    IN [mem |-> contra.mem,
        pats |-> merged.pats,
        result |-> [removedDuplicates |-> dedup.removed,
                    contradictionsDetected |-> contra.contradictions,
                    prunedPatterns |-> pruned.pruned,
                    mergedPatterns |-> merged.merged],
        afterDedup |-> dedup.mem,
        afterPrune |-> pruned.pats]

\* The listeners called up to and with the first one that throws
RECURSIVE CalledUntilThrow(_, _)
CalledUntilThrow(listeners, i) ==
    IF i > Len(listeners) THEN <<>>
    ELSE IF listeners[i] = "throwing" THEN <<listeners[i]>>
    ELSE <<listeners[i]>> \o CalledUntilThrow(listeners, i + 1)

emitEventUncaught(listeners, event) ==
    [calls |-> [i \in DOMAIN CalledUntilThrow(listeners, 1) |->
                   [listener |-> listeners[i], event |-> event]],
     escaped |-> \E i \in DOMAIN listeners : listeners[i] = "throwing"]

\* emitEvent(event): every listener is called with the event, in order;
\* what a listener throws is caught and logged
emitEvent(listeners, event) ==
    [calls |-> [i \in DOMAIN listeners |-> [listener |-> listeners[i], event |-> event]],
     escaped |-> FALSE]

\* consolidate(): dedup, contradictions, prune, merge, then the
\* memory_consolidated event with the final memory count
consolidate ==
    LET c == Consolidated(config, memories, patterns, now)
        emitted == emitEvent(config.eventListeners,
                             [type |-> "memory_consolidated",
                              memoriesCount |-> Len(c.mem)])
    IN /\ memories' = c.mem
       /\ patterns' = c.pats
       /\ last' = [op |-> "consolidate", result |-> c.result,
                   event |-> [type |-> "memory_consolidated",
                              memoriesCount |-> Len(c.mem)],
                   emitted |-> emitted.calls,
                   outcome |-> IF emitted.escaped THEN "error" ELSE "returned",
                   prev |-> IF last.op = "consolidate"
                            THEN [op |-> "consolidate", result |-> last.result]
                            ELSE [op |-> last.op]]
       /\ UNCHANGED <<graphVars, breakerVars, busVars, taskVars, config, nextMemId, trajVars, trajectories, promotions, now>>

\* Date.now() advances
TickDays == 31

MaxDays == 31

tick ==
    /\ now + TickDays <= MaxDays
    /\ now' = now + TickDays
    /\ last' = [op |-> "tick"]
    /\ UNCHANGED <<graphVars, breakerVars, busVars, taskVars, config, memVars, trajVars, patVars>>

\* ------------------------------------------------------------- MemoryGraph

\* config.maxNodes of the modelled graph
maxNodes == 3

\* The default weight of addEdge, 1.0, in tenths
DefaultWeight == 10

NodeIds == {"a", "b", "c", "d"}

Weights == {5, DefaultWeight}

HasEdge(es, source, target) ==
    \E e \in es : e.source = source /\ e.target = target

EdgeOf(es, source, target) ==
    CHOOSE e \in es : e.source = source /\ e.target = target

\* The entries of a Map without the key id
Without(map, id) == [v \in (DOMAIN map) \ {id} |-> map[v]]

AddNodeUnlimited(g, id) ==
    [g EXCEPT !.nodes = g.nodes \cup {id}, !.dirty = TRUE]

\* addNode on a graph state g = [nodes, edges, dirty]: nothing for a new
\* id at capacity
AddNodeTo(g, id) ==
    IF Cardinality(g.nodes) >= maxNodes /\ id \notin g.nodes THEN g
    ELSE [g EXCEPT !.nodes = g.nodes \cup {id}, !.dirty = TRUE]

AddEdgeOverwrites(g, source, target, type, weight) ==
    IF source \notin g.nodes \/ target \notin g.nodes THEN g
    ELSE [g EXCEPT !.edges = {e \in g.edges : e.source # source \/ e.target # target}
                                \cup {[source |-> source, target |-> target,
                                       type |-> type, weight |-> weight]},
                   !.dirty = TRUE]

\* addEdge on a graph state: nothing if an endpoint is missing; the
\* maximum of the old and the new weight for an edge that exists
AddEdgeTo(g, source, target, type, weight) ==
    IF source \notin g.nodes \/ target \notin g.nodes THEN g
    ELSE IF HasEdge(g.edges, source, target)
    THEN LET old == EdgeOf(g.edges, source, target)
         IN [g EXCEPT !.edges = (g.edges \ {old})
                          \cup {[old EXCEPT !.weight = Max(old.weight, weight)]},
                      !.dirty = TRUE]
    ELSE [g EXCEPT !.edges = g.edges \cup {[source |-> source, target |-> target,
                                             type |-> type, weight |-> weight]},
                   !.dirty = TRUE]

Graph == [nodes |-> nodes, edges |-> edges, dirty |-> dirty]

\* The weights passed for each stored edge, after a call that passed
\* `weight` for (source, target) and left the edges `es`
Offered(es, source, target, weight) ==
    {o \in offered \cup {[source |-> source, target |-> target, weight |-> weight]} :
        HasEdge(es, o.source, o.target)}

\* The dirty flag after a call that refreshed what was there already (a
\* node that is present, an edge that exists): the documents do not say
\* whether such a call invalidates the caches
RefreshedDirty(g) == {dirty, g.dirty}

\* addNode(entry)
addNode(id) ==
    LET g == AddNodeTo(Graph, id)
    IN /\ nodes' = g.nodes
       /\ dirty' \in (IF id \in nodes THEN RefreshedDirty(g) ELSE {g.dirty})
       /\ last' = [op |-> "addNode", id |-> id, wasPresent |-> id \in nodes,
                   wasFull |-> Cardinality(nodes) >= maxNodes, wasDirty |-> dirty]
       /\ UNCHANGED <<bankVars, breakerVars, busVars, taskVars, edges, pageRanks, communities, offered>>

RemoveNodeKeepsIncoming(g, id) ==
    IF id \notin g.nodes THEN g
    ELSE [nodes |-> g.nodes \ {id},
          edges |-> {e \in g.edges : e.source # id},
          dirty |-> TRUE]

RemoveNodeStaysClean(g, id) ==
    IF id \notin g.nodes THEN g
    ELSE [nodes |-> g.nodes \ {id},
          edges |-> {e \in g.edges : e.source # id /\ e.target # id},
          dirty |-> g.dirty]

\* removeNode on a graph state: the node and every edge from or to it
RemoveNodeFrom(g, id) ==
    IF id \notin g.nodes THEN g
    ELSE [nodes |-> g.nodes \ {id},
          edges |-> {e \in g.edges : e.source # id /\ e.target # id},
          dirty |-> TRUE]

\* removeNode(id): also the cached rank and label of the node
removeNode(id) ==
    LET g == RemoveNodeFrom(Graph, id)
    IN /\ nodes' = g.nodes
       /\ edges' = g.edges
       /\ dirty' = g.dirty
       /\ pageRanks' = Without(pageRanks, id)
       /\ communities' = Without(communities, id)
       /\ offered' = {o \in offered : HasEdge(g.edges, o.source, o.target)}
       /\ last' = [op |-> "removeNode", id |-> id, wasPresent |-> id \in nodes,
                   edgesBefore |-> Cardinality(edges), wasDirty |-> dirty]
       /\ UNCHANGED <<bankVars, breakerVars, busVars, taskVars>>

\* addEdge(sourceId, targetId, type, weight)
addEdge(source, target, type, weight) ==
    LET g == AddEdgeTo(Graph, source, target, type, weight)
    IN /\ edges' = g.edges
       /\ dirty' \in (IF HasEdge(edges, source, target) THEN RefreshedDirty(g)
                      ELSE {g.dirty})
       /\ offered' = Offered(g.edges, source, target, weight)
       /\ last' = [op |-> "addEdge", source |-> source, target |-> target,
                   weight |-> weight, existed |-> HasEdge(edges, source, target),
                   wasDirty |-> dirty]
       /\ UNCHANGED <<bankVars, breakerVars, busVars, taskVars, nodes, pageRanks, communities>>

\* The entries a backend query returns: [id, references], in order
Entry(id, references) == [id |-> id, references |-> references]

Backends ==
    {<<>>,
     <<Entry("a", {"c"}), Entry("b", {"c", "d"}), Entry("c", {})>>,
     <<Entry("a", {}), Entry("b", {}), Entry("c", {}), Entry("d", {"a"})>>}

RECURSIVE AddNodesFrom(_, _, _)
AddNodesFrom(g, entries, i) ==
    IF i > Len(entries) THEN g
    ELSE AddNodesFrom(AddNodeTo(g, entries[i].id), entries, i + 1)

\* The edges for the references of one entry to nodes of the graph
RECURSIVE AddReferences(_, _, _)
AddReferences(g, id, refs) ==
    IF refs = {} THEN g
    ELSE LET r == CHOOSE x \in refs : TRUE
         IN AddReferences(IF r \in g.nodes
                          THEN AddEdgeTo(g, id, r, "reference", DefaultWeight)
                          ELSE g,
                          id, refs \ {r})

RECURSIVE AddReferencesFrom(_, _, _)
AddReferencesFrom(g, entries, i) ==
    IF i > Len(entries) THEN g
    ELSE AddReferencesFrom(AddReferences(g, entries[i].id, entries[i].references),
                           entries, i + 1)

\* The graph buildFromBackend leaves: a node per entry while there is
\* room, then an edge per reference to a node of the graph
BuiltFrom(g, entries) == AddReferencesFrom(AddNodesFrom(g, entries, 1), entries, 1)

\* buildFromBackend(backend): emits graph:built with the node count
buildFromBackend(entries) ==
    LET g == BuiltFrom(Graph, entries)
    IN /\ nodes' = g.nodes
       /\ edges' = g.edges
       /\ dirty' = g.dirty
       /\ offered' = {o \in offered \cup
                            {[source |-> e.source, target |-> e.target,
                              weight |-> DefaultWeight] : e \in g.edges \ edges} :
                        HasEdge(g.edges, o.source, o.target)}
       /\ last' = [op |-> "buildFromBackend", entries |-> Len(entries),
                   event |-> [type |-> "graph:built",
                              nodeCount |-> Cardinality(g.nodes)]]
       /\ UNCHANGED <<bankVars, breakerVars, busVars, taskVars, pageRanks, communities>>

\* Ranks are fixed-point numbers: RankScale stands for 1.0
RankScale == 1000000

\* config.pageRankDamping, in hundredths
pageRankDamping == 85

maxIterations == 50

\* The convergence threshold of the power iteration, in 1/RankScale
ConvergenceThreshold == 1

\* The sum of f[x] over the x of S
RECURSIVE SumOver(_, _)
SumOver(f, S) ==
    IF S = {} THEN 0
    ELSE LET x == CHOOSE y \in S : TRUE
         IN f[x] + SumOver(f, S \ {x})

OutDegree(es, u) == Cardinality({e \in es : e.source = u})

DanglingShareNone(ns, es, ranks) == 0

\* The rank mass of the nodes without outgoing edges, spread over all nodes
DanglingShare(ns, es, ranks) ==
    SumOver(ranks, {u \in ns : OutDegree(es, u) = 0}) \div Cardinality(ns)

\* One power iteration: (1 - d)/N + d * (sum over the predecessors of
\* rank/outDegree + the dangling share)
PageRankStep(ns, es, ranks) ==
    LET share == DanglingShare(ns, es, ranks)
        incoming(v) == {e \in es : e.target = v}
        received(v) == SumOver([e \in incoming(v) |->
                                   ranks[e.source] \div OutDegree(es, e.source)],
                               incoming(v))
    IN [v \in ns |-> ((100 - pageRankDamping) * RankScale) \div (100 * Cardinality(ns))
                     + (pageRankDamping * (received(v) + share)) \div 100]

L1Change(ns, old, new) == SumOver([v \in ns |-> Abs(new[v] - old[v])], ns)

\* `change < threshold`: the iteration stops
Converged(change) == change < ConvergenceThreshold

\* One pass of the iteration loop: the new ranks replace the old ones and
\* the loop is left when the change is below the threshold
IterationStep(ns, es, st) ==
    IF st.done THEN st
    ELSE LET new == PageRankStep(ns, es, st.ranks)
         IN [ranks |-> new,
             iterations |-> st.iterations + 1,
             done |-> Converged(L1Change(ns, st.ranks, new))]

\* n passes of the loop, by halves
RECURSIVE IterationSteps(_, _, _, _)
IterationSteps(ns, es, st, n) ==
    IF n <= 0 THEN st
    ELSE IF n = 1 THEN IterationStep(ns, es, st)
    ELSE LET half == IterationSteps(ns, es, st, n \div 2)
         IN IF half.done THEN half
            ELSE IterationSteps(ns, es, half, n - (n \div 2))

PowerIterateLateCap(ns, es, ranks, iter) ==
    LET st == IterationSteps(ns, es,
                             [ranks |-> ranks, iterations |-> iter, done |-> FALSE],
                             2 * maxIterations - iter)
    IN [ranks |-> st.ranks, iterations |-> st.iterations]

\* The power iteration from `ranks`, `iter` iterations done so far: the
\* loop runs until the ranks settle or maxIterations passes are done
PowerIterate(ns, es, ranks, iter) ==
    LET st == IterationSteps(ns, es,
                             [ranks |-> ranks, iterations |-> iter, done |-> FALSE],
                             maxIterations - iter)
    IN [ranks |-> st.ranks, iterations |-> st.iterations]

ComputedPageRankUniform(ns, es) ==
    IF ns = {} THEN [ranks |-> <<>>, iterations |-> 0]
    ELSE [ranks |-> [v \in ns |-> RankScale \div Cardinality(ns)], iterations |-> 1]

\* The ranks and the iteration count of computePageRank on a graph: an
\* empty map without iterating for the empty graph
ComputedPageRank(ns, es) ==
    IF ns = {} THEN [ranks |-> <<>>, iterations |-> 0]
    ELSE PowerIterate(ns, es, [v \in ns |-> RankScale \div Cardinality(ns)], 0)

\* computePageRank(): the graph is clean afterwards; one pagerank:computed
\* event with the iterations used
computePageRank ==
    LET r == ComputedPageRank(nodes, edges)
    IN /\ pageRanks' = r.ranks
       /\ dirty' = FALSE
       /\ last' = [op |-> "computePageRank", result |-> r.ranks,
                   events |-> <<[type |-> "pagerank:computed",
                                 iterations |-> r.iterations]>>,
                   wasDirty |-> dirty]
       /\ UNCHANGED <<bankVars, breakerVars, busVars, taskVars, nodes, edges, communities, offered>>

\* The order in which the nodes are visited and labels compared
NodeOrder == <<"a", "b", "c", "d", "e", "f">>

NodeIndex(v) == CHOOSE i \in 1..Len(NodeOrder) : NodeOrder[i] = v

CommunityMaxIterations == 10

\* The number of edges between v and its neighbours that carry `label`
\* (edges taken as undirected)
LabelCount(es, labels, v, label) ==
    Cardinality({e \in es : \/ e.source = v /\ e.target # v /\ labels[e.target] = label
                            \/ e.target = v /\ e.source # v /\ labels[e.source] = label})

AdoptedLabelOwn(es, labels, v) == labels[v]

\* The label v adopts: the most frequent among its neighbours, the lowest
\* on a tie; its own if it has no neighbour
AdoptedLabel(es, labels, v) ==
    LET around == {labels[e.target] : e \in {x \in es : x.source = v /\ x.target # v}}
                  \cup {labels[e.source] : e \in {x \in es : x.target = v /\ x.source # v}}
    IN IF around = {} THEN labels[v]
       ELSE CHOOSE l \in around :
                \A m \in around :
                    \/ LabelCount(es, labels, v, l) > LabelCount(es, labels, v, m)
                    \/ /\ LabelCount(es, labels, v, l) = LabelCount(es, labels, v, m)
                       /\ NodeIndex(l) <= NodeIndex(m)

\* One pass over the nodes, each adopting in turn
RECURSIVE PropagateFrom(_, _, _, _)
PropagateFrom(ns, es, labels, i) ==
    IF i > Len(NodeOrder) THEN labels
    ELSE PropagateFrom(ns, es,
             IF NodeOrder[i] \in ns
             THEN [labels EXCEPT ![NodeOrder[i]] = AdoptedLabel(es, labels, NodeOrder[i])]
             ELSE labels,
             i + 1)

RECURSIVE PropagateLabels(_, _, _, _)
PropagateLabels(ns, es, labels, iter) ==
    IF iter >= CommunityMaxIterations THEN labels
    ELSE LET new == PropagateFrom(ns, es, labels, 1)
         IN IF new = labels THEN labels
            ELSE PropagateLabels(ns, es, new, iter + 1)

\* The labels of detectCommunities: every node starts with its own
DetectedCommunities(ns, es) == PropagateLabels(ns, es, [v \in ns |-> v], 0)

\* detectCommunities(): emits communities:detected with the label count
detectCommunities ==
    LET labels == DetectedCommunities(nodes, edges)
    IN /\ communities' = labels
       /\ last' = [op |-> "detectCommunities", result |-> labels,
                   events |-> <<[type |-> "communities:detected",
                                 communityCount |->
                                     Cardinality({labels[v] : v \in DOMAIN labels})]>>]
       /\ UNCHANGED <<bankVars, breakerVars, busVars, taskVars, nodes, edges, dirty, pageRanks, offered>>

\* The ranks getTopNodes and rankWithGraph rank by: those of the current
\* graph (memory-graph.test.ts calls both without computePageRank)
RanksInUseCached(g, cache) == cache

RanksInUse(g, cache) ==
    IF g.dirty THEN ComputedPageRank(g.nodes, g.edges).ranks ELSE cache

\* ... and what the call leaves of the cache: refreshed and clean, or as
\* it was (the documents do not say which)
LazyRecompute(ranks) ==
    \/ /\ pageRanks' = ranks
       /\ dirty' = FALSE
    \/ UNCHANGED <<pageRanks, dirty>>

CommunityOf(id) == IF id \in DOMAIN communities THEN communities[id] ELSE "none"

\* The orders of the elements of S, as sequences without repetition
Orders(S) ==
    {p \in [1..Cardinality(S) -> S] : \A i, j \in DOMAIN p : i # j => p[i] # p[j]}

Min(x, y) == IF x <= y THEN x ELSE y

\* The lists getTopNodes(n) may return: the n nodes of highest rank,
\* highest first
TopNodes(ranks, n) ==
    {[i \in 1..Min(n, Len(p)) |->
         [id |-> p[i], pageRank |-> ranks[p[i]], community |-> CommunityOf(p[i])]] :
       p \in {q \in Orders(DOMAIN ranks) :
                 \A i, j \in DOMAIN q : i < j => ranks[q[i]] >= ranks[q[j]]}}

\* getTopNodes(n)
getTopNodes(n) ==
    LET ranks == RanksInUse(Graph, pageRanks)
    IN /\ \E top \in TopNodes(ranks, n) :
             last' = [op |-> "getTopNodes", n |-> n, result |-> top,
                      wasDirty |-> dirty]
       /\ LazyRecompute(ranks)
       /\ UNCHANGED <<bankVars, breakerVars, busVars, taskVars, nodes, edges, communities, offered>>

\* A search result: the entry's id and its vector score in hundredths
SearchResult(id, score) == [id |-> id, score |-> score]

MaxRank(ranks) ==
    IF DOMAIN ranks = {} THEN 0
    ELSE CHOOSE x \in {ranks[v] : v \in DOMAIN ranks} :
             \A v \in DOMAIN ranks : ranks[v] <= x

\* The rank of an entry in thousandths of the highest rank of the graph;
\* 0 for an entry that is no node
NormalizedPageRank(ranks, id) ==
    IF id \notin DOMAIN ranks \/ MaxRank(ranks) = 0 THEN 0
    ELSE (ranks[id] * 1000) \div MaxRank(ranks)

\* combinedScore = alpha * score + (1 - alpha) * normalized rank, in 1/10000
Ranked(ranks, r, alpha) ==
    [id |-> r.id,
     score |-> r.score,
     pageRank |-> IF r.id \in DOMAIN ranks THEN ranks[r.id] ELSE 0,
     combinedScore |-> alpha * r.score * 10
                       + (10 - alpha) * NormalizedPageRank(ranks, r.id),
     community |-> CommunityOf(r.id)]

RankedListsUnsorted(ranks, results, alpha) ==
    {[i \in DOMAIN results |-> Ranked(ranks, results[i], alpha)]}

\* The lists rankWithGraph may return: the ranked results by combinedScore,
\* highest first
RankedLists(ranks, results, alpha) ==
    {[i \in DOMAIN results |-> Ranked(ranks, results[p[i]], alpha)] :
       p \in {q \in Orders(DOMAIN results) :
                 \A i, j \in DOMAIN q :
                     i < j => Ranked(ranks, results[q[i]], alpha).combinedScore
                              >= Ranked(ranks, results[q[j]], alpha).combinedScore}}

\* rankWithGraph(searchResults, alpha)
rankWithGraph(results, alpha) ==
    LET ranks == RanksInUse(Graph, pageRanks)
    IN /\ \E ranked \in RankedLists(ranks, results, alpha) :
             last' = [op |-> "rankWithGraph", alpha |-> alpha,
                      searchResults |-> results, result |-> ranked,
                      wasDirty |-> dirty]
       /\ LazyRecompute(ranks)
       /\ UNCHANGED <<bankVars, breakerVars, busVars, taskVars, nodes, edges, communities, offered>>

\* The nodes reached from `frontier` over outgoing edges in `depth` hops
RECURSIVE Reached(_, _, _, _)
Reached(es, seen, frontier, depth) ==
    IF depth = 0 \/ frontier = {} THEN seen
    ELSE LET next == {e.target : e \in {x \in es : x.source \in frontier}} \ seen
         IN Reached(es, seen \cup next, next, depth - 1)

\* getNeighbors(id, depth): the start node is not among them
getNeighbors(id, depth) ==
    /\ last' = [op |-> "getNeighbors", id |-> id,
                result |-> Reached(edges, {id}, {id}, depth) \ {id},
                wasDirty |-> dirty]
    /\ UNCHANGED <<bankVars, breakerVars, busVars, taskVars, graphVars>>

\* The lowest of the cached ranks, 0 if there is none
MinRank(ranks) ==
    IF DOMAIN ranks = {} THEN 0
    ELSE CHOOSE x \in {ranks[v] : v \in DOMAIN ranks} :
             \A v \in DOMAIN ranks : ranks[v] >= x

\* getStats()
getStats ==
    /\ last' = [op |-> "getStats",
                result |-> [nodeCount |-> Cardinality(nodes),
                            edgeCount |-> Cardinality(edges),
                            communityCount |->
                                Cardinality({communities[v] : v \in DOMAIN communities}),
                            pageRankComputed |-> ~dirty,
                            maxPageRank |-> MaxRank(pageRanks),
                            minPageRank |-> MinRank(pageRanks)],
                wasDirty |-> dirty]
    /\ UNCHANGED <<bankVars, breakerVars, busVars, taskVars, graphVars>>

\* A bound of the model on the number of edges addEdge and
\* buildFromBackend are called to create
MaxEdges == 2

\* The structure of the knowledge graph: nodes and edges come and go
NextGraph ==
    \/ \E id \in NodeIds : addNode(id)
    \/ \E id \in NodeIds : removeNode(id)
    \/ \E source \in NodeIds, target \in NodeIds, weight \in Weights :
          /\ source # target
          /\ Cardinality(edges) < MaxEdges \/ HasEdge(edges, source, target)
          /\ addEdge(source, target, "reference", weight)
    \/ \E entries \in Backends :
          /\ Cardinality(BuiltFrom(Graph, entries).edges) <= MaxEdges
          /\ buildFromBackend(entries)
    \/ getStats

SpecGraph == Init /\ [][NextGraph]_vars

\* The ranks and labels of a graph of up to three nodes: computed, read
\* and invalidated
RankNodeIds == {"a", "b", "c"}

RankEdges == {<<"a", "c">>, <<"b", "c">>}

RankResults == {<<SearchResult("a", 50), SearchResult("c", 50)>>}

NextRank ==
    \/ \E id \in RankNodeIds : addNode(id)
    \/ \E id \in RankNodeIds : removeNode(id)
    \/ \E e \in RankEdges : addEdge(e[1], e[2], "reference", DefaultWeight)
    \/ computePageRank
    \/ detectCommunities
    \/ getTopNodes(1)
    \/ \E results \in RankResults : rankWithGraph(results, 0)
    \/ getNeighbors("a", 1)
    \/ getStats

SpecRank == Init /\ [][NextRank]_vars

\* The power iteration on graphs with cycles, where the ranks settle slowly
IterEdges == {<<"a", "b">>, <<"b", "c">>, <<"c", "b">>}

NextIter ==
    \/ \E id \in RankNodeIds : addNode(id)
    \/ \E e \in IterEdges : addEdge(e[1], e[2], "reference", DefaultWeight)
    \/ computePageRank

SpecIter == Init /\ [][NextIter]_vars

\* Judging and distilling trajectories at the edges of the verdict rule
JudgedIds == {"tA", "tD", "tE", "tH", "tI", "tJ", "tK"}

InitWith(cfgs, ids, throwingSets) ==
    /\ config \in cfgs
    /\ memories = <<>>
    /\ nextMemId = 1
    /\ verdict = [t \in ids |-> Trajectory[t].verdict0]
    /\ distilledMemory = [t \in ids |-> 0]
    /\ awaiting = {}
    /\ trajectories = <<>>
    /\ patterns = <<>>
    /\ now = 0
    /\ promotions = 0
    /\ last = [op |-> "new"]
    /\ nodes = {}
    /\ edges = {}
    /\ dirty = TRUE
    /\ pageRanks = <<>>
    /\ communities = <<>>
    /\ offered = {}
    /\ InitBreaker(throwingSets)
    /\ InitBus
    /\ InitTasks

InitOf(cfgs, ids) == InitWith(cfgs, ids, {{}})

InitJudge == InitOf(Configs, TrajIds \cup JudgeTrajIds)

NextJudge ==
    \/ \E t \in JudgedIds : judge(t)
    \/ \E t \in JudgedIds : distill(t)
    \/ \E t \in JudgedIds : distillResume(t)

SpecJudge == InitJudge /\ [][NextJudge]_vars

\* Consolidation with contradiction detection switched on or off, over
\* memories that are duplicates (tA, tB) or contradict each other (tA, tC)
ContraConfigs ==
    [mmrLambda : {mmrLambdaDefault},
     enableContradictionDetection : BOOLEAN,
     eventListeners : {<<>>}]

ContraTrajs == {"tA", "tB", "tC"}

InitContra == InitOf(ContraConfigs, TrajIds)

NextContra ==
    \/ \E t \in ContraTrajs : distill(t)
    \/ \E t \in ContraTrajs : distillResume(t)
    \/ consolidate

SpecContra == InitContra /\ [][NextContra]_vars

\* Search results blended with the ranks of a graph of up to two nodes:
\* alpha 0, the default 0.7 and 1, in tenths; "u" is no node of the graph
BlendNodeIds == {"a", "b"}

BlendResults ==
    {<<SearchResult("a", 50), SearchResult("b", 50)>>,
     <<SearchResult("a", 80), SearchResult("u", 90)>>,
     <<SearchResult("a", 60), SearchResult("b", 50), SearchResult("u", 10)>>}

BlendAlphas == {0, 7, 10}

NextBlend ==
    \/ \E id \in BlendNodeIds : addNode(id)
    \/ addEdge("a", "b", "reference", DefaultWeight)
    \/ computePageRank
    \/ \E results \in BlendResults, alpha \in BlendAlphas : rankWithGraph(results, alpha)

SpecBlend == Init /\ [][NextBlend]_vars

\* Label propagation on graphs of up to six nodes, built from links that
\* have an edge in each direction: two triangles and a bridge between them
CommNodeIds == {"a", "b", "c", "d", "e", "f"}

CommLinks ==
    {{"a", "b"}, {"a", "f"}, {"b", "f"}, {"c", "d"}, {"c", "e"}, {"d", "e"}, {"c", "f"}}

CommOneWay == {<<"d", "a">>}

LinkEdges(links) ==
    {[type |-> "reference", source |-> x, target |-> y, weight |-> DefaultWeight] :
        <<x, y>> \in {p \in CommNodeIds \X CommNodeIds : p[1] # p[2] /\ {p[1], p[2]} \in links}}

\* A graph whose nodes and links were added by addNode and addEdge calls
InitComm ==
    /\ config \in Configs
    /\ memories = <<>>
    /\ nextMemId = 1
    /\ verdict = [t \in TrajIds |-> Trajectory[t].verdict0]
    /\ distilledMemory = [t \in TrajIds |-> 0]
    /\ awaiting = {}
    /\ trajectories = <<>>
    /\ patterns = <<>>
    /\ now = 0
    /\ promotions = 0
    /\ last = [op |-> "new"]
    /\ nodes \in SUBSET CommNodeIds
    /\ \E links \in SUBSET {l \in CommLinks : l \subseteq nodes} :
          edges = LinkEdges(links)
    /\ dirty = TRUE
    /\ pageRanks = <<>>
    /\ communities = <<>>
    /\ offered = {[source |-> e.source, target |-> e.target, weight |-> e.weight] :
                     e \in edges}
    /\ InitBreaker({{}})
    /\ InitBus
    /\ InitTasks

NextComm ==
    \/ detectCommunities
    \/ \E e \in CommOneWay : addEdge(e[1], e[2], "reference", DefaultWeight)

SpecComm == InitComm /\ [][NextComm]_vars

\* ---------------------------------------------------------- specifications

\* The memory pipeline: judge, distill, retrieve, consolidate
Next ==
    \/ \E t \in TrajIds : judge(t)
    \/ \E t \in TrajIds : distill(t)
    \/ \E t \in TrajIds : distillResume(t)
    \/ \E q \in Queries, k \in Ks : retrieve(q, k)
    \/ consolidate

Spec == Init /\ [][Next]_vars

\* The pattern store: patterns are promoted from memories the caller
\* holds, evolved, aged and consolidated
MaxHistory == 2

MaxPromotions == 3

StoredTrajs == {"tC"}

Experiences == {"tA", "tF"}

PatternIds == {m.memoryId : m \in SeedMemories}

HistoryLen(id) ==
    IF \E i \in 1..Len(patterns) : patterns[i].patternId = id
    THEN Len((CHOOSE p \in {patterns[i] : i \in 1..Len(patterns)} :
                 p.patternId = id).qualityHistory)
    ELSE 0

NextPattern ==
    \/ \E t \in StoredTrajs : storeTrajectory(t)
    \/ \E m \in SeedMemories : promotions < MaxPromotions /\ memoryToPattern(m)
    \/ \E id \in PatternIds, t \in Experiences :
          HistoryLen(id) < MaxHistory /\ evolvePattern(id, t)
    \/ tick
    \/ consolidate

SpecPattern == Init /\ [][NextPattern]_vars

\* The trajectory store: any trajectory is stored at any time
NextTraj == \E t \in TrajIds : storeTrajectory(t)

SpecTraj == Init /\ [][NextTraj]_vars

\* The pattern store driven to the cap of qualityHistory: one pattern is
\* evolved over and over while a similar one is promoted beside it
MaxEvolutions == 101

EvolutionLen(id) ==
    IF \E i \in 1..Len(patterns) : patterns[i].patternId = id
    THEN Len((CHOOSE p \in {patterns[i] : i \in 1..Len(patterns)} :
                 p.patternId = id).evolutionHistory)
    ELSE 0

CapSeeds == {m \in SeedMemories : m.memoryId \in {11, 12}}

CapPatternIds == {11}

CapExperience == "tA"

NextCap ==
    \/ \E m \in CapSeeds : promotions < MaxPromotions /\ memoryToPattern(m)
    \/ \E id \in CapPatternIds :
          EvolutionLen(id) < MaxEvolutions /\ evolvePattern(id, CapExperience)
    \/ consolidate

SpecCap == Init /\ [][NextCap]_vars

\* Patterns that age by maxPatternAgeDays exactly and by a day more
PruneTicks == {maxPatternAgeDays, maxPatternAgeDays + 1}

tickBy(days) ==
    /\ now + days <= MaxDays
    /\ now' = now + days
    /\ last' = [op |-> "tick"]
    /\ UNCHANGED <<graphVars, breakerVars, busVars, taskVars, config, memVars, trajVars, patVars>>

NextPrune ==
    \/ \E m \in SeedMemories : promotions < MaxPromotions /\ memoryToPattern(m)
    \/ \E id \in PatternIds, t \in Experiences :
          HistoryLen(id) < MaxHistory /\ evolvePattern(id, t)
    \/ \E days \in PruneTicks : tickBy(days)
    \/ consolidate

SpecPrune == Init /\ [][NextPrune]_vars

\* Consolidation over memories and patterns with zero and with
\* three-dimensional embeddings, with a listener that throws registered
RobustConfigs ==
    [mmrLambda : {mmrLambdaDefault},
     enableContradictionDetection : {TRUE},
     eventListeners : {<<>>, <<"throwing", "quiet">>}]

RobustTrajs == {"tA", "tI", "tL"}

RobustSeeds ==
    {SeedMemory(11, "tA", <<65, 0>>, 90, 5),
     SeedMemory(14, "tL", <<0, 0>>, 80, 0),
     SeedMemory(15, "tI", <<10, 20, 40>>, 60, 0)}

InitRobust == InitOf(RobustConfigs, TrajIds \cup JudgeTrajIds)

NextRobust ==
    \/ \E t \in RobustTrajs : distill(t)
    \/ \E t \in RobustTrajs : distillResume(t)
    \/ \E m \in RobustSeeds : promotions < MaxPromotions /\ memoryToPattern(m)
    \/ consolidate

SpecRobust == InitRobust /\ [][NextRobust]_vars

\* A bank constructed with { mmrLambda: 1.0 }: the MMR score is the
\* relevance alone
LambdaConfigs ==
    [mmrLambda : {10},
     enableContradictionDetection : {TRUE},
     eventListeners : {<<>>}]

InitLambda == InitOf(LambdaConfigs, TrajIds)

SpecLambda == InitLambda /\ [][Next]_vars

\* ---------------------------------------------------------- CircuitBreaker

\* cleanupOldFailures: the failures inside the window stay
cleanupOldFailures(b, t) ==
    [b EXCEPT !.failures = SelectSeq(b.failures, LAMBDA f : f > t - failureWindow)]

\* shouldTrip: the absolute threshold, or the failure rate once enough
\* requests were counted
shouldTrip(b) ==
    \/ Len(b.failures) >= failureThreshold
    \/ /\ b.totalRequests >= minimumRequests
       /\ 100 * Len(b.failures) >= failureRateThreshold * b.totalRequests

\* scheduleRecoveryCheck: a pending timeout is cleared and a new one set
scheduleRecoveryCheck(b, t) == [b EXCEPT !.recoveryTimer = t + recoveryTimeout]

\* transitionTo(newState), up to the stateChange event: getStats(), the
\* argument of emit, cleans the failures up
transitionTo(b, newState, t) ==
    LET moved == [b EXCEPT !.state = newState, !.lastStateChange = t]
        done == IF newState = "closed"
                THEN [moved EXCEPT !.failures = <<>>, !.successes = 0]
                ELSE IF newState = "half-open"
                THEN [moved EXCEPT !.successes = 0]
                ELSE scheduleRecoveryCheck(moved, t)
    IN cleanupOldFailures(done, t)

\* EventEmitter.emit calls the listeners at once and lets what they throw
\* out: the events of a call up to the first one whose listener throws
RECURSIVE EmittedFrom(_, _, _)
EmittedFrom(events, throwing, i) ==
    IF i > Len(events) THEN <<>>
    ELSE IF events[i] \in throwing THEN <<events[i]>>
    ELSE <<events[i]>> \o EmittedFrom(events, throwing, i + 1)

Emitted(events, throwing) == EmittedFrom(events, throwing, 1)

Threw(events, throwing) == \E i \in DOMAIN events : events[i] \in throwing

\* The events a handler emits, in order: stateChange if it called
\* transitionTo, then its own
CallEvents(transitioned, own) ==
    (IF transitioned THEN <<"stateChange">> ELSE <<>>) \o own

\* The switch of recordFailure with the half-open case left to the trip
\* rule of the closed one
FailureTransitionTripsOnly(b) == b.state # "open" /\ shouldTrip(b)

\* The switch of recordFailure: whether it calls transitionTo('open')
FailureTransition(b) ==
    \/ b.state = "closed" /\ shouldTrip(b)
    \/ b.state = "half-open"

\* recordFailure(error)
recordFailure ==
    /\ breaker.totalRequests < MaxRequests
    /\ LET counted == cleanupOldFailures(
                          [breaker EXCEPT !.totalRequests = @ + 1,
                                          !.failures = Append(@, dateNow)],
                          dateNow)
           transitioned == FailureTransition(counted)
           events == CallEvents(transitioned, <<"failure">>)
       IN /\ breaker' = IF transitioned THEN transitionTo(counted, "open", dateNow)
                        ELSE counted
          /\ last' = [op |-> "recordFailure", from |-> breaker.state,
                      tripped |-> shouldTrip(counted),
                      emitted |-> Emitted(events, breaker.throwing),
                      outcome |-> IF Threw(events, breaker.throwing)
                                  THEN "error" ELSE "returned"]
    /\ UNCHANGED <<bankVars, graphVars, busVars, taskVars, dateNow, successCalls>>

\* `this.successes >= this.config.successThreshold` taken strictly
ClosesOnSuccessStrict(b) == b.successes > successThreshold

\* `if (this.successes >= this.config.successThreshold)` in recordSuccess
ClosesOnSuccess(b) == b.successes >= successThreshold

\* recordSuccess(): getStats(), the argument of emit, cleans the failures up
recordSuccess ==
    /\ breaker.totalRequests < MaxRequests
    /\ LET counted == [breaker EXCEPT !.totalRequests = @ + 1]
           switched ==
               IF counted.state = "closed" THEN [counted EXCEPT !.failures = <<>>]
               ELSE IF counted.state = "half-open"
               THEN [counted EXCEPT !.successes = @ + 1]
               ELSE counted
           transitioned == /\ counted.state = "half-open"
                           /\ ClosesOnSuccess(switched)
           events == CallEvents(transitioned, <<"success">>)
       IN /\ breaker' = IF transitioned THEN transitionTo(switched, "closed", dateNow)
                        ELSE cleanupOldFailures(switched, dateNow)
          /\ last' = [op |-> "recordSuccess", from |-> breaker.state,
                      failuresBefore |-> Len(cleanupOldFailures(breaker, dateNow).failures),
                      emitted |-> Emitted(events, breaker.throwing),
                      outcome |-> IF Threw(events, breaker.throwing)
                                  THEN "error" ELSE "returned"]
    /\ successCalls' = IF breaker.state = "half-open" THEN successCalls + 1
                       ELSE successCalls
    /\ UNCHANGED <<bankVars, graphVars, busVars, taskVars, dateNow>>

\* The recovery test of canExecute taken strictly
RecoveryDueStrict(b, t) == t - b.lastStateChange > recoveryTimeout

\* `Date.now() - this.lastStateChange >= this.config.recoveryTimeout`
RecoveryDue(b, t) == t - b.lastStateChange >= recoveryTimeout

\* canExecute()
canExecute ==
    /\ LET cleaned == cleanupOldFailures(breaker, dateNow)
           transitioned == /\ cleaned.state = "open"
                           /\ RecoveryDue(cleaned, dateNow)
           events == CallEvents(transitioned, <<>>)
       IN /\ breaker' = IF transitioned THEN transitionTo(cleaned, "half-open", dateNow)
                        ELSE cleaned
          /\ last' = [op |-> "canExecute", from |-> breaker.state,
                      elapsed |-> dateNow - breaker.lastStateChange,
                      emitted |-> Emitted(events, breaker.throwing),
                      outcome |-> IF Threw(events, breaker.throwing)
                                  THEN "error" ELSE "returned",
                      returned |-> IF Threw(events, breaker.throwing) THEN <<>>
                                   ELSE <<cleaned.state # "open" \/ transitioned>>]
          /\ successCalls' = IF transitioned THEN 0 ELSE successCalls
    /\ UNCHANGED <<bankVars, graphVars, busVars, taskVars, dateNow>>

\* The callback of the recovery timeout without its test of the state
RecoveryCheckMovesAlways(b) == TRUE

\* `if (this.state === 'open')` in the callback of the recovery timeout
RecoveryCheckMoves(b) == b.state = "open"

\* The callback of the recovery timeout, run once the delay has passed
recoveryCheck ==
    /\ breaker.recoveryTimer # NoTimer
    /\ dateNow >= breaker.recoveryTimer
    /\ LET fired == [breaker EXCEPT !.recoveryTimer = NoTimer]
           transitioned == RecoveryCheckMoves(fired)
           events == CallEvents(transitioned, <<>>)
       IN /\ breaker' = IF transitioned THEN transitionTo(fired, "half-open", dateNow)
                        ELSE fired
          /\ last' = [op |-> "recoveryCheck", from |-> breaker.state,
                      emitted |-> Emitted(events, breaker.throwing),
                      outcome |-> IF Threw(events, breaker.throwing)
                                  THEN "error" ELSE "returned"]
          /\ successCalls' = IF transitioned THEN 0 ELSE successCalls
    /\ UNCHANGED <<bankVars, graphVars, busVars, taskVars, dateNow>>

\* Time passes
advanceClock ==
    /\ dateNow < MaxTime
    /\ dateNow' = dateNow + 1
    /\ last' = [op |-> "advanceClock"]
    /\ UNCHANGED <<bankVars, graphVars, busVars, taskVars, breaker, successCalls>>

\* The breaker is used with no listener, or with a stateChange listener
\* that throws
ThrowingSets == {{}, {"stateChange"}}

InitCircuit == InitWith(Configs, TrajIds, ThrowingSets)

NextCircuit ==
    \/ canExecute
    \/ recordSuccess
    \/ recordFailure
    \/ recoveryCheck
    \/ advanceClock

SpecCircuit == InitCircuit /\ [][NextCircuit]_vars

\* ---------------------------------------------------------------- EventBus

\* The handler functions subscribed and the events published
Handlers == {"h1"}

Events ==
    {[id |-> "event-1", type |-> "TaskCreated"],
     [id |-> "event-2", type |-> "TaskFailed"]}

\* subscribe(eventType, handler): a new entry at the end of the type's Set
subscribe(eventType, handler) ==
    /\ Len(subscriptions) < MaxSubscriptions
    /\ LET n == Len(subscriptions) + 1
       IN /\ handlers' = [handlers EXCEPT
                             ![eventType] = Append(@, [sub |-> n, handler |-> handler])]
          /\ subscriptions' = Append(subscriptions, [eventType |-> eventType])
          /\ last' = [op |-> "subscribe"]
    /\ UNCHANGED <<bankVars, graphVars, breakerVars, taskVars,
                   wildcardHandlers, publishes, busLog>>

\* subscribeAll(handler)
subscribeAll(handler) ==
    /\ Len(subscriptions) < MaxSubscriptions
    /\ LET n == Len(subscriptions) + 1
       IN /\ wildcardHandlers' = Append(wildcardHandlers, [sub |-> n, handler |-> handler])
          /\ subscriptions' = Append(subscriptions, [eventType |-> "*"])
          /\ last' = [op |-> "subscribeAll"]
    /\ UNCHANGED <<bankVars, graphVars, breakerVars, taskVars,
                   handlers, publishes, busLog>>

\* Set.delete of the entry of subscription n
WithoutEntry(entries, n) == SelectSeq(entries, LAMBDA h : h.sub # n)

\* unsubscribe(subscription), or subscription.unsubscribe()
unsubscribe(n) ==
    /\ n \in 1..Len(subscriptions)
    /\ IF subscriptions[n].eventType = "*"
       THEN /\ wildcardHandlers' = WithoutEntry(wildcardHandlers, n)
            /\ UNCHANGED handlers
       ELSE /\ handlers' = [handlers EXCEPT
                               ![subscriptions[n].eventType] = WithoutEntry(@, n)]
            /\ UNCHANGED wildcardHandlers
    /\ last' = [op |-> "unsubscribe"]
    /\ UNCHANGED <<bankVars, graphVars, breakerVars, taskVars,
                   subscriptions, publishes, busLog>>

\* allHandlers: the handlers of the event's type, then the wildcard ones
AllHandlers(eventType) ==
    LET entries == handlers[eventType] \o wildcardHandlers
    IN [i \in 1..Len(entries) |-> entries[i].handler]

\* The dispatcher called whatever the handlers
ShouldDispatchAlways(allHandlers) == TRUE

\* `if (allHandlers.length > 0)`
ShouldDispatch(allHandlers) == Len(allHandlers) > 0

\* publish(event), up to its first await: eventStore.append(event) is
\* called
publish(event) ==
    /\ Len(publishes) < MaxPublishes
    /\ LET p == Len(publishes) + 1
       IN /\ publishes' = Append(publishes,
                             [event |-> event, pc |-> "append", appended |-> "pending",
                              found |-> <<>>, outcome |-> "pending"])
          /\ busLog' = Append(busLog, [call |-> "append", publish |-> p, event |-> event])
          /\ last' = [op |-> "publish"]
    /\ UNCHANGED <<bankVars, graphVars, breakerVars, taskVars,
                   handlers, wildcardHandlers, subscriptions>>

\* eventStore.append resolved: publish collects the handlers and calls the
\* dispatcher if there are any
appendResolved(p) ==
    /\ p \in 1..Len(publishes)
    /\ publishes[p].pc = "append"
    /\ LET event == publishes[p].event
           allHandlers == AllHandlers(event.type)
       IN IF ShouldDispatch(allHandlers)
          THEN /\ busLog' = Append(busLog, [call |-> "dispatch", publish |-> p,
                                            event |-> event, handlers |-> allHandlers])
               /\ publishes' = [publishes EXCEPT ![p].pc = "dispatch",
                                                 ![p].appended = "resolved",
                                                 ![p].found = allHandlers]
          ELSE /\ busLog' = busLog
               /\ publishes' = [publishes EXCEPT ![p].pc = "done",
                                                 ![p].appended = "resolved",
                                                 ![p].outcome = "resolved"]
    /\ last' = [op |-> "appendResolved"]
    /\ UNCHANGED <<bankVars, graphVars, breakerVars, taskVars,
                   handlers, wildcardHandlers, subscriptions>>

\* eventStore.append rejected: the await throws and publish rejects
appendRejected(p) ==
    /\ p \in 1..Len(publishes)
    /\ publishes[p].pc = "append"
    /\ publishes' = [publishes EXCEPT ![p].pc = "done",
                                      ![p].appended = "rejected",
                                      ![p].outcome = "rejected"]
    /\ last' = [op |-> "appendRejected"]
    /\ UNCHANGED <<bankVars, graphVars, breakerVars, taskVars,
                   handlers, wildcardHandlers, subscriptions, busLog>>

\* dispatcher.dispatch settled: publish resolves, or rejects with what the
\* dispatcher rejected with
dispatchSettled(p, outcome) ==
    /\ p \in 1..Len(publishes)
    /\ publishes[p].pc = "dispatch"
    /\ publishes' = [publishes EXCEPT ![p].pc = "done", ![p].outcome = outcome]
    /\ last' = [op |-> "dispatchSettled"]
    /\ UNCHANGED <<bankVars, graphVars, breakerVars, taskVars,
                   handlers, wildcardHandlers, subscriptions, busLog>>

NextBus ==
    \/ \E t \in EventTypes, h \in Handlers : subscribe(t, h)
    \/ \E h \in Handlers : subscribeAll(h)
    \/ \E n \in 1..MaxSubscriptions : unsubscribe(n)
    \/ \E e \in Events : publish(e)
    \/ \E p \in 1..MaxPublishes : appendResolved(p)
    \/ \E p \in 1..MaxPublishes : appendRejected(p)
    \/ \E p \in 1..MaxPublishes, outcome \in {"resolved", "rejected"} :
          dispatchSettled(p, outcome)

SpecBus == Init /\ [][NextBus]_vars

\* ------------------------------------------------------------- TaskManager

\* Every await of the task manager is a step of its own: the step of a
\* position is the collaborator call awaited there taking effect and
\* resolving, followed by the code up to the next await.  The repository
\* and the publisher resolve; the executor's run resolves or rejects.

\* The task definitions create is called with: a full one, one without name
Definitions == {[name |-> "build", type |-> "coding"], [name |-> "", type |-> "coding"]}

NewCall(op, id) == [op |-> op, task |-> id, pc |-> "start", outcome |-> "pending",
                    error |-> ""]

\* The call c at its next await
Advance(c, pc) == [taskCalls EXCEPT ![c].pc = pc]

\* The call c resolved
Resolve(c) == [taskCalls EXCEPT ![c].pc = "done", ![c].outcome = "resolved"]

\* The call c rejected with an Error
Reject(c, error) ==
    [taskCalls EXCEPT ![c].pc = "done", ![c].outcome = "rejected", ![c].error = error]

AtStep(c, op, pc) ==
    /\ c \in 1..Len(taskCalls)
    /\ taskCalls[c].op = op
    /\ taskCalls[c].pc = pc

\* create(definition), up to its first await: the idGenerator hands out an
\* id no task has yet
create(definition, id) ==
    /\ Len(taskCalls) < MaxTaskCalls
    /\ tasks[id] = "absent"
    /\ \A c \in 1..Len(taskCalls) : ~(taskCalls[c].op = "create" /\ taskCalls[c].task = id)
    /\ taskCalls' = Append(taskCalls,
                      IF definition.name = "" \/ definition.type = ""
                      THEN [NewCall("create", id) EXCEPT
                              !.pc = "done", !.outcome = "rejected",
                              !.error = "Task name and type are required"]
                      ELSE [NewCall("create", id) EXCEPT !.pc = "save"])
    /\ last' = [op |-> "create", call |-> Len(taskCalls) + 1]
    /\ UNCHANGED <<bankVars, graphVars, breakerVars, busVars,
                   tasks, executorLog, published>>

\* repository.save(task)
createSave(c) ==
    /\ AtStep(c, "create", "save")
    /\ tasks' = [tasks EXCEPT ![taskCalls[c].task] = "pending"]
    /\ taskCalls' = Advance(c, "publishCreated")
    /\ last' = [op |-> "create.save", call |-> c]
    /\ UNCHANGED <<bankVars, graphVars, breakerVars, busVars, executorLog, published>>

\* eventPublisher.publish of TaskCreated, and the return
createPublish(c) ==
    /\ AtStep(c, "create", "publishCreated")
    /\ published' = Append(published, [type |-> "TaskCreated", taskId |-> taskCalls[c].task])
    /\ taskCalls' = Resolve(c)
    /\ last' = [op |-> "create.publish", call |-> c]
    /\ UNCHANGED <<bankVars, graphVars, breakerVars, busVars, tasks, executorLog>>

\* execute(taskId), up to its first await
execute(id) ==
    /\ Len(taskCalls) < MaxTaskCalls
    /\ taskCalls' = Append(taskCalls, [NewCall("execute", id) EXCEPT !.pc = "findById"])
    /\ last' = [op |-> "execute", call |-> Len(taskCalls) + 1]
    /\ UNCHANGED <<bankVars, graphVars, breakerVars, busVars,
                   tasks, executorLog, published>>

\* The status test of execute with that of cancel in its place
ExecuteAllowedUnlessDone(status) == status \notin {"completed", "cancelled"}

\* `task.status !== 'pending'` lets the call go on
ExecuteAllowed(status) == status = "pending"

\* repository.findById(taskId) in execute, and the two tests
executeFind(c) ==
    /\ AtStep(c, "execute", "findById")
    /\ LET status == tasks[taskCalls[c].task]
       IN /\ taskCalls' =
                IF status = "absent" THEN Reject(c, "Task not found")
                ELSE IF ~ExecuteAllowed(status) THEN Reject(c, "Task cannot be executed")
                ELSE Advance(c, "updateRunning")
          /\ last' = [op |-> "execute.findById", call |-> c, read |-> status]
    /\ UNCHANGED <<bankVars, graphVars, breakerVars, busVars,
                   tasks, executorLog, published>>

\* repository.update(taskId, { status: 'running' })
executeUpdateRunning(c) ==
    /\ AtStep(c, "execute", "updateRunning")
    /\ tasks' = [tasks EXCEPT ![taskCalls[c].task] = "running"]
    /\ taskCalls' = Advance(c, "publishStarted")
    /\ last' = [op |-> "execute.updateRunning", call |-> c]
    /\ UNCHANGED <<bankVars, graphVars, breakerVars, busVars, executorLog, published>>

\* eventPublisher.publish of TaskStarted; then executor.run is called
executePublishStarted(c) ==
    /\ AtStep(c, "execute", "publishStarted")
    /\ published' = Append(published, [type |-> "TaskStarted", taskId |-> taskCalls[c].task])
    /\ executorLog' = Append(executorLog, [call |-> "run", taskId |-> taskCalls[c].task])
    /\ taskCalls' = Advance(c, "run")
    /\ last' = [op |-> "execute.publishStarted", call |-> c]
    /\ UNCHANGED <<bankVars, graphVars, breakerVars, busVars, tasks>>

\* executor.run settled: the try block goes on, or the catch block starts
executeRunSettled(c, ok) ==
    /\ AtStep(c, "execute", "run")
    /\ taskCalls' = Advance(c, IF ok THEN "updateCompleted" ELSE "updateFailed")
    /\ last' = [op |-> "execute.run", call |-> c]
    /\ UNCHANGED <<bankVars, graphVars, breakerVars, busVars,
                   tasks, executorLog, published>>

\* repository.update(taskId, { status: 'completed' }) or ({ status: 'failed' })
executeUpdateDone(c) ==
    /\ \/ AtStep(c, "execute", "updateCompleted")
       \/ AtStep(c, "execute", "updateFailed")
    /\ LET ok == taskCalls[c].pc = "updateCompleted"
       IN /\ tasks' = [tasks EXCEPT
                          ![taskCalls[c].task] = IF ok THEN "completed" ELSE "failed"]
          /\ taskCalls' = Advance(c, IF ok THEN "publishCompleted" ELSE "publishFailed")
    /\ last' = [op |-> "execute.updateDone", call |-> c]
    /\ UNCHANGED <<bankVars, graphVars, breakerVars, busVars, executorLog, published>>

\* eventPublisher.publish of TaskCompleted or TaskFailed, and the return
executePublishDone(c) ==
    /\ \/ AtStep(c, "execute", "publishCompleted")
       \/ AtStep(c, "execute", "publishFailed")
    /\ published' = Append(published,
                      [type |-> IF taskCalls[c].pc = "publishCompleted"
                                THEN "TaskCompleted" ELSE "TaskFailed",
                       taskId |-> taskCalls[c].task])
    /\ taskCalls' = Resolve(c)
    /\ last' = [op |-> "execute.publishDone", call |-> c]
    /\ UNCHANGED <<bankVars, graphVars, breakerVars, busVars, tasks, executorLog>>

\* cancel(taskId), up to its first await
cancel(id) ==
    /\ Len(taskCalls) < MaxTaskCalls
    /\ taskCalls' = Append(taskCalls, [NewCall("cancel", id) EXCEPT !.pc = "findById"])
    /\ last' = [op |-> "cancel", call |-> Len(taskCalls) + 1]
    /\ UNCHANGED <<bankVars, graphVars, breakerVars, busVars,
                   tasks, executorLog, published>>

\* repository.findById(taskId) in cancel, the two tests, and the call of
\* executor.abort for a running task
cancelFind(c) ==
    /\ AtStep(c, "cancel", "findById")
    /\ LET status == tasks[taskCalls[c].task]
       IN /\ taskCalls' =
                IF status = "absent" THEN Reject(c, "Task not found")
                ELSE IF status \in {"completed", "cancelled"}
                THEN Reject(c, "Cannot cancel task")
                ELSE IF status = "running" THEN Advance(c, "abort")
                ELSE Advance(c, "updateCancelled")
          /\ executorLog' =
                IF status = "running"
                THEN Append(executorLog, [call |-> "abort", taskId |-> taskCalls[c].task])
                ELSE executorLog
          /\ last' = [op |-> "cancel.findById", call |-> c, read |-> status]
    /\ UNCHANGED <<bankVars, graphVars, breakerVars, busVars, tasks, published>>

\* executor.abort resolved
cancelAborted(c) ==
    /\ AtStep(c, "cancel", "abort")
    /\ taskCalls' = Advance(c, "updateCancelled")
    /\ last' = [op |-> "cancel.abort", call |-> c]
    /\ UNCHANGED <<bankVars, graphVars, breakerVars, busVars,
                   tasks, executorLog, published>>

\* repository.update(taskId, { status: 'cancelled' })
cancelUpdate(c) ==
    /\ AtStep(c, "cancel", "updateCancelled")
    /\ tasks' = [tasks EXCEPT ![taskCalls[c].task] = "cancelled"]
    /\ taskCalls' = Advance(c, "publishCancelled")
    /\ last' = [op |-> "cancel.update", call |-> c]
    /\ UNCHANGED <<bankVars, graphVars, breakerVars, busVars, executorLog, published>>

\* eventPublisher.publish of TaskCancelled, and the return
cancelPublish(c) ==
    /\ AtStep(c, "cancel", "publishCancelled")
    /\ published' = Append(published, [type |-> "TaskCancelled", taskId |-> taskCalls[c].task])
    /\ taskCalls' = Resolve(c)
    /\ last' = [op |-> "cancel.publish", call |-> c]
    /\ UNCHANGED <<bankVars, graphVars, breakerVars, busVars, tasks, executorLog>>

NextTasks ==
    \/ \E d \in Definitions, id \in TaskIds : create(d, id)
    \/ \E id \in TaskIds : execute(id)
    \/ \E id \in TaskIds : cancel(id)
    \/ \E c \in 1..MaxTaskCalls :
          \/ createSave(c)
          \/ createPublish(c)
          \/ executeFind(c)
          \/ executeUpdateRunning(c)
          \/ executePublishStarted(c)
          \/ \E ok \in BOOLEAN : executeRunSettled(c, ok)
          \/ executeUpdateDone(c)
          \/ executePublishDone(c)
          \/ cancelFind(c)
          \/ cancelAborted(c)
          \/ cancelUpdate(c)
          \/ cancelPublish(c)

SpecTasks == Init /\ [][NextTasks]_vars

\* ------------------------------------------------------------------ claims

\* The stored entry with a memoryId
EntryOf(mem, id) == CHOOSE e \in {mem[i] : i \in 1..Len(mem)} : e.memoryId = id

IsStored(mem, id) == \E i \in 1..Len(mem) : mem[i].memoryId = id

\* C1: a memory that contradiction detection has marked consolidated is
\* in no list a later retrieve returns.
C1_ConsolidatedNeverRetrieved ==
    last.op = "retrieve" =>
        \A i \in 1..Len(last.results) :
            ~EntryOf(memories, last.results[i].memoryId).consolidated

\* The entries of the first n results, and the stored entries not among them
SelectedBefore(n) == {EntryOf(memories, last.results[i].memoryId) : i \in 1..n}

Remaining(n) == {memories[i] : i \in 1..Len(memories)} \ SelectedBefore(n)

Relevance(e) == cosineSimilarity(last.query, e.embedding)

\* The place of a stored entry in insertion order
Position(e) == CHOOSE i \in 1..Len(memories) : memories[i] = e

\* d comes before e in relevance-sorted order (more relevant, or as
\* relevant and inserted earlier)
SortedBefore(d, e) ==
    \/ Relevance(d) > Relevance(e)
    \/ Relevance(d) = Relevance(e) /\ Position(d) < Position(e)

\* The largest element of a non-empty set of integers
SetMax(S) == CHOOSE x \in S : \A y \in S : y <= x

\* The largest similarity of e to a set of entries, as the claim words it:
\* 0 if the set is empty
LargestSimilarity(e, sel) ==
    IF sel = {} THEN 0
    ELSE SetMax({cosineSimilarity(e.embedding, s.embedding) : s \in sel})

\* ... and as the code computes it: never below 0
ClampedSimilarity(e, sel) == SetMax({0} \cup {LargestSimilarity(e, sel)})

ClaimedScore(e, n) ==
    config.mmrLambda * Relevance(e)
    + (10 - config.mmrLambda) * (SimScale - LargestSimilarity(e, SelectedBefore(n)))

ClampedScore(e, n) ==
    config.mmrLambda * Relevance(e)
    + (10 - config.mmrLambda) * (SimScale - ClampedSimilarity(e, SelectedBefore(n)))

EffectiveK == IF last.k = <<>> THEN retrievalK ELSE last.k[1]

\* C3: retrieve returns exactly min(k, number of stored memories) results,
\* none for k <= 0 or an empty store, and no memory twice.
C3_ResultCount ==
    last.op = "retrieve" =>
        /\ Len(last.results) =
              IF EffectiveK <= 0 THEN 0
              ELSE IF EffectiveK <= Len(memories) THEN EffectiveK
              ELSE Len(memories)
        /\ \A i, j \in 1..Len(last.results) :
              i # j => last.results[i].memoryId # last.results[j].memoryId
        /\ \A i \in 1..Len(last.results) : IsStored(memories, last.results[i].memoryId)

\* A retrieve cut short by k, and one cut short by the store
C3_Witness ==
    /\ last.op = "retrieve"
    /\ Len(memories) = 3
    /\ last.k = <<2>>
    /\ Len(last.results) = 2

\* C4: at most one stored memory refers to any trajectoryId.
C4_OneMemoryPerTrajectory ==
    \A i, j \in 1..Len(memories) :
        i # j => memories[i].trajectoryId # memories[j].trajectoryId

\* A step in which a distill call on t returns or throws (at once, or
\* after its suspension)
DistillEnds(t) ==
    /\ distill(t) \/ distillResume(t)
    /\ last'.result # "pending"

\* When the call ends, verdict.success is false or the quality is below
\* the threshold
NothingToKeep(t) ==
    \/ verdict'[t] = "failure"
    \/ Trajectory[t].qualityScore < distillationThreshold

ReturnsNullUnchanged(t) ==
    /\ last'.result = "null"
    /\ memories' = memories
    /\ distilledMemory'[t] = distilledMemory[t]

\* C5, as claimed: distill returns null whenever the verdict is
\* unsuccessful or the quality is below distillationThreshold, and then
\* leaves the memory store and trajectory.distilledMemory as they were.
C5_Original_NullWhenRejected ==
    [][\A t \in TrajIds :
          DistillEnds(t) /\ NothingToKeep(t) => ReturnsNullUnchanged(t)]_vars

\* C5, amended: so it is for a trajectory that is complete or already
\* carries a verdict; for an incomplete trajectory without a verdict
\* distill throws, whatever its quality, and changes nothing.
C5_NullWhenRejected ==
    [][\A t \in TrajIds :
          /\ (DistillEnds(t) /\ NothingToKeep(t)
                /\ (Trajectory[t].isComplete \/ verdict[t] # "none"))
             => ReturnsNullUnchanged(t)
          /\ (distill(t) /\ ~Trajectory[t].isComplete /\ verdict[t] = "none")
             => /\ last'.result = "error"
                /\ memories' = memories
                /\ distilledMemory' = distilledMemory
                /\ verdict' = verdict]_vars

\* distill has returned null for a trajectory it judged itself, and for
\* one that came with a successful verdict and too low a quality, with
\* memories in the store
C5_Witness ==
    /\ last.op = "distill"
    /\ last.result = "null"
    /\ last.traj = "tF"
    /\ verdict["tF"] = "success"
    /\ verdict["tD"] = "failure"
    /\ Len(memories) > 0

IsDuplicatePair(e, f) ==
    cosineSimilarity(e.embedding, f.embedding) * 100 > dedupThreshold * SimScale

\* The member of a duplicate pair (i before j in the store) that the claim
\* has deleted: the lower quality, the later one on equal quality
LowerOf(mem, i, j) == IF mem[i].quality >= mem[j].quality THEN mem[j] ELSE mem[i]

HigherOf(mem, i, j) == IF mem[i].quality >= mem[j].quality THEN mem[i] ELSE mem[j]

DuplicatePairs(mem) ==
    {p \in (1..Len(mem)) \X (1..Len(mem)) :
        p[1] < p[2] /\ IsDuplicatePair(mem[p[1]], mem[p[2]])}

\* C6, as claimed: for every pair of stored memories more similar than
\* dedupThreshold, consolidate keeps the higher-quality one (the earlier on
\* equal quality) and deletes the other.
C6_Original_DedupKeepsHigher ==
    [][consolidate =>
          \A p \in DuplicatePairs(memories) :
              /\ IsStored(memories', HigherOf(memories, p[1], p[2]).memoryId)
              /\ ~IsStored(memories', LowerOf(memories, p[1], p[2]).memoryId)]_vars

\* C6, amended: the lower-quality memory of every such pair (the later
\* one on equal quality) is deleted, and a memory is kept exactly if it
\* is the lower one of no such pair.
C6_DedupDeletesLower ==
    [][consolidate =>
          \A i \in 1..Len(memories) :
              IsStored(memories', memories[i].memoryId)
              <=> ~\E p \in DuplicatePairs(memories) :
                      LowerOf(memories, p[1], p[2]) = memories[i]]_vars

\* consolidate has removed a duplicate of equal quality and kept a memory
C6_Witness ==
    /\ last.op = "consolidate"
    /\ last.result.removedDuplicates > 0
    /\ last.prev.op = "distill"
    /\ Len(memories) = 2
    /\ memories[1].memoryId = 1
    /\ distilledMemory[memories[1].trajectoryId] = 2

NoDuplicatePair(mem) == DuplicatePairs(mem) = {}

\* C7: after a consolidate no two stored memories are more similar than
\* dedupThreshold, and a consolidate that directly follows a consolidate
\* returns removedDuplicates = 0.
C7_DedupIdempotent ==
    last.op = "consolidate" =>
        /\ NoDuplicatePair(memories)
        /\ last.prev.op = "consolidate" => last.result.removedDuplicates = 0

\* a second consolidate in a row, after one that removed duplicates
C7_Witness ==
    /\ last.op = "consolidate"
    /\ last.prev.op = "consolidate"
    /\ last.prev.result.removedDuplicates > 0
    /\ last.result.removedDuplicates = 0
    /\ Len(memories) >= 2

StoredPatterns == {patterns[i] : i \in 1..Len(patterns)}

\* C8: every stored pattern's successRate is the arithmetic mean of its
\* qualityHistory, after any sequence of memoryToPattern, evolvePattern
\* and consolidate calls.
C8_SuccessRateIsMean ==
    \A p \in StoredPatterns :
        p.successRate.num * Len(p.qualityHistory)
            = Sum(p.qualityHistory) * p.successRate.den

\* C9: every stored pattern's qualityHistory holds at most 100 samples,
\* after any sequence of memoryToPattern, evolvePattern and consolidate
\* calls.
C9_HistoryCapped ==
    \A p \in StoredPatterns : Len(p.qualityHistory) <= QualityHistoryCap

\* The patterns the merge pass of a consolidate call starts from
BeforeMerge == Consolidated(config, memories, patterns, now).afterPrune

SimilarPatterns(p, q) ==
    cosineSimilarity(p.embedding, q.embedding) * 100 > 90 * SimScale

\* Of two patterns, p before q in the Map: the one with the lower
\* successRate, q on a tie
LoserOf(p, q) == IF FracGeq(p.successRate, q.successRate) THEN q ELSE p

TotalUsage(pats) == Sum([i \in 1..Len(pats) |-> pats[i].usageCount])

TotalSamples(pats) == Sum([i \in 1..Len(pats) |-> Len(pats[i].qualityHistory)])

\* The evolutionHistory entries a pattern stored after the step has gained
GainedEntries(p, before) ==
    LET old == {q \in {before[i] : i \in 1..Len(before)} : q.patternId = p.patternId}
        n == IF old = {} THEN 0 ELSE Len((CHOOSE q \in old : TRUE).evolutionHistory)
    IN {p.evolutionHistory[i] : i \in (n + 1)..Len(p.evolutionHistory)}

\* C10: of two stored patterns of the same domain with similarity > 0.9
\* consolidate deletes the one with the lower successRate (the second on
\* a tie); the survivors gain the usageCount and the qualityHistory
\* samples of the deleted patterns, each once, and one merge entry for
\* each pattern they absorb; patterns of different domains are never
\* merged.
C10_MergeCombines ==
    [][consolidate =>
          LET before == BeforeMerge
          IN /\ \A i, j \in 1..Len(before) :
                    (i < j /\ SimilarPatterns(before[i], before[j])
                       /\ before[i].domain = before[j].domain)
                    => \A p \in {patterns'[n] : n \in 1..Len(patterns')} :
                          p.patternId # LoserOf(before[i], before[j]).patternId
             /\ TotalUsage(patterns') = TotalUsage(before)
             /\ TotalSamples(patterns') = TotalSamples(before)
             /\ \A p \in {patterns'[n] : n \in 1..Len(patterns')} :
                    \A e \in GainedEntries(p, before) :
                        /\ e.type = "merge"
                        /\ \E q \in {before[n] : n \in 1..Len(before)} :
                              /\ q.patternId = e.ref
                              /\ q.domain = p.domain
                              /\ SimilarPatterns(p, q)]_vars

\* floor(0.8 * maxTrajectories)
KeptAfterPrune == (maxTrajectories * 8) \div 10

TrajSet(store) == {store[i] : i \in 1..Len(store)}

\* A storeTrajectory call with a new trajectoryId on a store that holds
\* maxTrajectories trajectories
StoreAtCapacity(t) ==
    /\ storeTrajectory(t)
    /\ Len(trajectories) = maxTrajectories
    /\ t \notin TrajSet(trajectories)

\* C11, as claimed: at maxTrajectories a storeTrajectory with a new
\* trajectoryId is dropped: no error, and the store stays as it was.
C11_Original_NewDroppedAtCapacity ==
    [][\A t \in TrajIds :
          StoreAtCapacity(t) =>
              /\ last'.op = "storeTrajectory"
              /\ trajectories' = trajectories]_vars

\* C11, amended: at maxTrajectories a storeTrajectory with a new
\* trajectoryId raises no error and is not dropped: the new trajectory
\* joins the store and the store is pruned, so that previously stored
\* trajectories may go; fewer than maxTrajectories stay, and every
\* trajectory that goes (the new one included) has at most the quality
\* of every one that stays.
C11_NewPrunesAtCapacity ==
    [][\A t \in TrajIds :
          StoreAtCapacity(t) =>
              LET all == TrajSet(trajectories) \cup {t}
                  kept == TrajSet(trajectories')
              IN /\ last'.op = "storeTrajectory"
                 /\ kept \subseteq all
                 /\ kept # TrajSet(trajectories)
                 /\ Cardinality(kept) < maxTrajectories
                 /\ \A e \in all \ kept, k \in kept :
                       Trajectory[e].qualityScore <= Trajectory[k].qualityScore]_vars

\* a new trajectory was stored at capacity, stayed, and a previously
\* stored one went
C11_Witness ==
    /\ last.op = "storeTrajectory"
    /\ Len(last.before) = maxTrajectories
    /\ last.traj \notin TrajSet(last.before)
    /\ last.traj \in TrajSet(trajectories)
    /\ \E e \in TrajSet(last.before) : e \notin TrajSet(trajectories)

\* d is evicted before e: lower quality, or equal quality and earlier in
\* the store
EvictedBefore(store, d, e) ==
    \/ Trajectory[d].qualityScore < Trajectory[e].qualityScore
    \/ /\ Trajectory[d].qualityScore = Trajectory[e].qualityScore
       /\ IndexOfTraj(store, d) < IndexOfTraj(store, e)

\* C12: after every storeTrajectory call the store holds at most
\* maxTrajectories trajectories; an insert that pushes the count over
\* maxTrajectories evicts in ascending qualityScore order until exactly
\* floor(0.8 * maxTrajectories) remain, and no other call evicts.
C12_PruneToEightyPercent ==
    [][\A t \in TrajIds :
          storeTrajectory(t) =>
              LET all == TrajSet(trajectories) \cup {t}
                  full == IF t \in TrajSet(trajectories) THEN trajectories
                          ELSE Append(trajectories, t)
                  kept == TrajSet(trajectories')
              IN /\ Len(trajectories') <= maxTrajectories
                 /\ Cardinality(kept) = Len(trajectories')
                 /\ kept \subseteq all
                 /\ Cardinality(all) <= maxTrajectories => kept = all
                 /\ Cardinality(all) > maxTrajectories =>
                       /\ Len(trajectories') = KeptAfterPrune
                       /\ \A e \in all \ kept, k \in kept :
                             EvictedBefore(full, e, k)]_vars

\* an insert at capacity pruned the store to floor(0.8 * maxTrajectories)
\* and the new trajectory itself was among the evicted
C12_Witness ==
    /\ last.op = "storeTrajectory"
    /\ Len(last.before) = maxTrajectories
    /\ last.traj \notin TrajSet(last.before)
    /\ last.traj \notin TrajSet(trajectories)
    /\ Len(trajectories) = KeptAfterPrune

\* C13: after any sequence of addNode and buildFromBackend calls the
\* graph holds at most maxNodes nodes: addNode with a new id at capacity
\* changes nothing, and addNode with an id that is present keeps the node
\* and the count.
C13_NodeCountCapped ==
    [][/\ \A id \in NodeIds :
             addNode(id) =>
                 /\ Cardinality(nodes') <= maxNodes
                 /\ (id \notin nodes /\ Cardinality(nodes) >= maxNodes)
                    => UNCHANGED graphVars
                 /\ id \in nodes
                    => (id \in nodes' /\ Cardinality(nodes') = Cardinality(nodes))
       /\ \A entries \in Backends :
             buildFromBackend(entries) =>
                 /\ Cardinality(nodes') <= maxNodes
                 /\ nodes \subseteq nodes'
                 /\ last'.event.nodeCount = Cardinality(nodes')]_vars

\* addNode was called with a new id on a full graph
C13_Witness ==
    /\ last.op = "addNode"
    /\ last.wasFull
    /\ ~last.wasPresent
    /\ last.id \notin nodes
    /\ Cardinality(nodes) = maxNodes

Touches(e, id) == e.source = id \/ e.target = id

\* C14: every edge has its source and its target among the nodes: addEdge
\* with a missing endpoint adds nothing, removeNode(id) removes every edge
\* from or to id, and edgeCount counts edges between present nodes only.
C14_EdgesBetweenNodes ==
    [][/\ \A e \in edges' : e.source \in nodes' /\ e.target \in nodes'
       /\ \A source \in NodeIds, target \in NodeIds, weight \in Weights :
             (addEdge(source, target, "reference", weight)
                /\ (source \notin nodes \/ target \notin nodes))
             => UNCHANGED graphVars
       /\ \A id \in NodeIds :
             removeNode(id) =>
                 /\ id \notin nodes'
                 /\ edges' = {e \in edges : ~Touches(e, id)}
       /\ getStats =>
             last'.result.edgeCount
                = Cardinality({e \in edges : e.source \in nodes /\ e.target \in nodes})]_vars

\* removeNode took a node with an incoming edge away and an edge between
\* other nodes stayed
C14_Witness ==
    /\ last.op = "removeNode"
    /\ last.wasPresent
    /\ last.edgesBefore > Cardinality(edges)
    /\ edges # {}

\* A call of one of the three mutating operations
MutatingCall ==
    \/ last'.op = "addNode" /\ \E id \in NodeIds : addNode(id)
    \/ last'.op = "removeNode" /\ \E id \in NodeIds : removeNode(id)
    \/ /\ last'.op = "addEdge"
       /\ \E source \in NodeIds, target \in NodeIds, weight \in Weights :
             addEdge(source, target, "reference", weight)

PageRankCall == last'.op = "computePageRank" /\ computePageRank

EdgePairs(es) == {<<e.source, e.target>> : e \in es}

ReadingRanks ==
    \/ last'.op = "getTopNodes" /\ getTopNodes(1)
    \/ last'.op = "rankWithGraph" /\ \E results \in RankResults : rankWithGraph(results, 0)

ReadingGraph ==
    \/ last'.op = "getNeighbors" /\ getNeighbors("a", 1)
    \/ last'.op = "getStats" /\ getStats

OfferedFor(e) ==
    {o.weight : o \in {x \in offered : x.source = e.source /\ x.target = e.target}}

\* C18: for any sequence of addEdge calls on one (source, target) pair the
\* stored weight is the largest weight passed for the pair and the pair has
\* one edge: a lower weight never lowers the stored weight.
C18_WeightIsMaximum ==
    /\ \A e \in edges :
          /\ OfferedFor(e) # {}
          /\ e.weight \in OfferedFor(e)
          /\ \A w \in OfferedFor(e) : w <= e.weight
    /\ \A e, f \in edges : (e.source = f.source /\ e.target = f.target) => e = f
    /\ last.op = "addEdge" /\ last.existed
       => \E e \in edges : /\ e.source = last.source
                           /\ e.target = last.target
                           /\ e.weight >= last.weight

\* an edge was added again with a lower weight than it has
C18_Witness ==
    /\ last.op = "addEdge"
    /\ last.existed
    /\ \E e \in edges : /\ e.source = last.source
                        /\ e.target = last.target
                        /\ e.weight > last.weight
                        /\ Cardinality(OfferedFor(e)) = 2
    /\ Cardinality(edges) = 2

\* The sum of the ranks a computePageRank call returned
RankTotal(ranks) == SumOver(ranks, DOMAIN ranks)

\* C19: the ranks computePageRank returns for a non-empty graph sum to
\* 1.0 within 1e-2, with dangling nodes and disconnected components too,
\* and a single node without edges has rank 1.0 (within 1e-5).
C19_RanksSumToOne ==
    (last.op = "computePageRank" /\ nodes # {}) =>
        /\ DOMAIN last.result = nodes
        /\ Abs(RankTotal(last.result) - RankScale) * 100 <= RankScale
        /\ \A v \in nodes : last.result[v] > 0
        /\ Cardinality(nodes) = 1
           => \A v \in nodes : Abs(last.result[v] - RankScale) * 100000 <= RankScale

\* computePageRank ran on a graph with a dangling node and a node apart
\* from the others
C19_Witness ==
    /\ last.op = "computePageRank"
    /\ nodes = {"a", "b", "c"}
    /\ EdgePairs(edges) = {<<"a", "c">>}
    /\ last.result["c"] > last.result["b"]

\* C20: computePageRank ends after at most maxIterations power iterations
\* and emits exactly one pagerank:computed event that reports the
\* iterations used: none, and an empty map, for the empty graph, and at
\* least one otherwise.
C20_BoundedIterations ==
    last.op = "computePageRank" =>
        /\ Len(last.events) = 1
        /\ last.events[1].type = "pagerank:computed"
        /\ last.events[1].iterations <= maxIterations
        /\ nodes = {} => (last.events[1].iterations = 0 /\ last.result = <<>>)
        /\ nodes # {} => last.events[1].iterations >= 1

\* computePageRank stopped at the iteration cap
C20_Witness ==
    /\ last.op = "computePageRank"
    /\ last.events[1].iterations = maxIterations
    /\ edges # {}

\* The nodes joined to v by a path of edges, whatever their direction
Component(v) ==
    Reached(edges \cup {[e EXCEPT !.source = e.target, !.target = e.source] : e \in edges},
            {v}, {v}, Cardinality(nodes)) \cup {v}

Neighbours(v) == {u \in nodes \ {v} : HasEdge(edges, u, v) \/ HasEdge(edges, v, u)}

BothWays(u, v) == u # v /\ HasEdge(edges, u, v) /\ HasEdge(edges, v, u)

LabelsApart ==
    /\ DOMAIN last.result = nodes
    /\ \A u, v \in nodes : u \notin Component(v) => last.result[u] # last.result[v]
    /\ \A v \in nodes :
          Neighbours(v) = {} => \A u \in nodes \ {v} : last.result[u] # last.result[v]
    /\ \A u, v, w, x \in nodes :
          (/\ nodes = {u, v, w, x}
           /\ Cardinality(nodes) = 4
           /\ EdgePairs(edges) = {<<u, v>>, <<v, u>>, <<w, x>>, <<x, w>>})
          => Cardinality({last.result[y] : y \in nodes}) = 2

Unranked(ranked) == [i \in DOMAIN ranked |-> SearchResult(ranked[i].id, ranked[i].score)]

\* p is q in another order
IsPermutation(p, q) ==
    /\ Len(p) = Len(q)
    /\ \E f \in Orders(DOMAIN q) : \A i \in DOMAIN p : p[i] = q[f[i]]

\* C22: rankWithGraph returns one result per search result, in
\* non-increasing order of combinedScore = alpha * score + (1 - alpha) *
\* normalized PageRank; an entry that is no node has pageRank 0; with
\* alpha = 1 the combinedScore is the vector score.
C22_BlendedRanking ==
    last.op = "rankWithGraph" =>
        LET current == ComputedPageRank(nodes, edges).ranks
            ranked == last.result
        IN /\ IsPermutation(Unranked(ranked), last.searchResults)
           /\ \A i, j \in DOMAIN ranked :
                 i < j => ranked[i].combinedScore >= ranked[j].combinedScore
           /\ \A i \in DOMAIN ranked :
                 /\ ranked[i].id \notin nodes => ranked[i].pageRank = 0
                 /\ ranked[i].id \in nodes => ranked[i].pageRank = current[ranked[i].id]
                 /\ ranked[i].combinedScore
                       = last.alpha * ranked[i].score * 10
                         + (10 - last.alpha) * NormalizedPageRank(current, ranked[i].id)
                 /\ last.alpha = 10 => ranked[i].combinedScore = 100 * ranked[i].score

\* the rank moved a result with a lower vector score to the front, and an
\* entry that is no node was ranked with pageRank 0
C22_Witness ==
    /\ last.op = "rankWithGraph"
    /\ last.alpha = 7
    /\ Len(last.result) = 3
    /\ edges # {}
    /\ last.result[1].score < last.result[2].score
    /\ \E i \in DOMAIN last.result : last.result[i].id = "u" /\ last.result[i].pageRank = 0

\* A trajectory the caller marked as not finished
Incomplete(t) == ~Trajectory[t].isComplete

\* C23: judge on a trajectory with isComplete = false fails with an error
\* and changes nothing: no verdict is attached and no memory is stored;
\* distill on such a trajectory without a verdict fails the same way.
C23_IncompleteRejected ==
    [][\A t \in JudgedIds :
          (/\ Incomplete(t)
           /\ \/ last'.op = "judge" /\ judge(t)
              \/ last'.op = "distill" /\ verdict[t] = "none" /\ distill(t))
          => /\ last'.result = "error"
             /\ UNCHANGED <<verdict, memories, nextMemId, distilledMemory, awaiting>>]_vars

\* judge has failed on an incomplete trajectory, with a memory in the store
C23_Witness ==
    /\ last = [op |-> "judge", traj |-> "tE", result |-> "error"]
    /\ verdict["tE"] = "none"
    /\ Len(memories) > 0

\* The steps of a trajectory with a reward above 0.5
PositiveSteps(t) ==
    {i \in DOMAIN Trajectory[t].steps : Trajectory[t].steps[i].reward > 50}

\* C24: for a complete trajectory judge returns success = true exactly
\* when qualityScore >= distillationThreshold and more than 60% of the
\* steps have a reward above 0.5; a trajectory without steps is never
\* successful.
C24_SuccessRule ==
    (last.op = "judge" /\ last.result # "error") =>
        LET t == last.traj
            n == Len(Trajectory[t].steps)
        IN /\ Trajectory[t].isComplete
           /\ last.result \in {"success", "failure"}
           /\ last.result = "success"
              <=> (/\ Trajectory[t].qualityScore >= distillationThreshold
                   /\ 100 * Cardinality(PositiveSteps(t)) > 60 * n)
           /\ n = 0 => last.result = "failure"
           /\ verdict[t] = last.result

\* judge has found every kind of trajectory: one without steps, one on the
\* quality threshold, and one with exactly 60% of positive steps
C24_Witness ==
    /\ last.op = "judge"
    /\ verdict["tH"] = "failure"
    /\ verdict["tI"] = "success"
    /\ verdict["tJ"] = "failure"
    /\ verdict["tK"] = "failure"

\* C25: for a complete trajectory that judge finds successful, distill
\* returns a memory whose embedding has the dimension of the step state
\* vectors, whose quality is the trajectory's qualityScore and whose
\* usageCount is 0; the memory is added to the store and
\* trajectory.distilledMemory is set to it.
C25_DistillStores ==
    [][\A t \in JudgedIds :
          (/\ last'.op = "distill"
           /\ DistillEnds(t)
           /\ Trajectory[t].isComplete
           /\ JudgeSuccess(t)
           /\ verdict'[t] = "success")
          => /\ last'.result = "memory"
             /\ Len(memories') = Len(memories) + 1
             /\ SubSeq(memories', 1, Len(memories)) = memories
             /\ LET m == memories'[Len(memories')]
                IN /\ m.memoryId = last'.memoryId
                   /\ \A i \in DOMAIN memories : memories[i].memoryId # m.memoryId
                   /\ m.trajectoryId = t
                   /\ \A i \in DOMAIN Trajectory[t].steps :
                         Len(m.embedding) = Len(Trajectory[t].steps[i].stateAfter)
                   /\ m.quality = Trajectory[t].qualityScore
                   /\ m.usageCount = 0
                   /\ distilledMemory'[t] = m.memoryId]_vars

\* distill has stored the memory of a trajectory with three-dimensional
\* state vectors that it judged itself
C25_Witness ==
    /\ last.op = "distill"
    /\ last.traj = "tI"
    /\ last.result = "memory"
    /\ distilledMemory["tI"] = last.memoryId
    /\ \E i \in DOMAIN memories :
          /\ memories[i].memoryId = last.memoryId
          /\ Len(memories[i].embedding) = 3

\* The memories the contradiction phase of a consolidate call starts from
AfterDedup == Consolidated(config, memories, patterns, now).afterDedup

\* The pairs i < j of similar memories whose qualities are far apart
ContradictoryPairs(mem) ==
    {p \in (1..Len(mem)) \X (1..Len(mem)) :
        /\ p[1] < p[2]
        /\ cosineSimilarity(mem[p[1]].embedding, mem[p[2]].embedding) * 100 > 80 * SimScale
        /\ Abs(mem[p[1]].quality - mem[p[2]].quality) > 40}

LowerQuality(mem, p) == IF mem[p[1]].quality < mem[p[2]].quality THEN p[1] ELSE p[2]

\* C26: contradiction detection never deletes a memory: for each pair with
\* similarity > 0.8 and quality difference > 0.4 it sets consolidated on
\* the one of lower quality and changes nothing else, and when
\* enableContradictionDetection is false it flags nothing and
\* contradictionsDetected is 0.
C26_ContradictionsOnlyFlag ==
    [][(last'.op = "consolidate" /\ consolidate) =>
          LET mem == AfterDedup
              pairs == ContradictoryPairs(mem)
              flagged == IF config.enableContradictionDetection
                         THEN {LowerQuality(mem, p) : p \in pairs}
                         ELSE {}
          IN /\ Len(memories') = Len(mem)
             /\ \A i \in DOMAIN mem :
                   /\ [memories'[i] EXCEPT !.consolidated = FALSE]
                         = [mem[i] EXCEPT !.consolidated = FALSE]
                   /\ memories'[i].consolidated
                         <=> (mem[i].consolidated \/ i \in flagged)
             /\ last'.result.contradictionsDetected
                   = IF config.enableContradictionDetection
                     THEN Cardinality(pairs) ELSE 0]_vars

\* consolidate has flagged the lower one of a contradictory pair and
\* deleted nothing
C26_Witness ==
    /\ last.op = "consolidate"
    /\ last.result.contradictionsDetected = 1
    /\ last.result.removedDuplicates = 0
    /\ Len(memories) = 2
    /\ \E i, j \in DOMAIN memories :
          /\ memories[i].consolidated
          /\ ~memories[j].consolidated
          /\ memories[i].quality < memories[j].quality

\* consolidate has left a contradictory pair unflagged, detection being off
C26_WitnessOff ==
    /\ last.op = "consolidate"
    /\ ~config.enableContradictionDetection
    /\ ContradictoryPairs(memories) # {}
    /\ \A i \in DOMAIN memories : ~memories[i].consolidated

\* The patterns the pruning step of a consolidate call leaves
AfterPrune == Consolidated(config, memories, patterns, now).afterPrune

\* The time since the pattern's updatedAt exceeds maxPatternAgeDays
TooOld(pattern) == now - pattern.updatedAt > maxPatternAgeDays

\* C27: the pruning step of consolidate deletes a pattern exactly when the
\* time since its updatedAt exceeds maxPatternAgeDays and its usageCount
\* is below 5; a pattern with usageCount >= 5, or updated within
\* maxPatternAgeDays, is never pruned.
C27_PrunedWhenOldAndUnused ==
    [][(last'.op = "consolidate" /\ consolidate) =>
          /\ AfterPrune
                = SelectSeq(patterns, LAMBDA p : ~(TooOld(p) /\ p.usageCount < 5))
          /\ last'.result.prunedPatterns
                = Cardinality({i \in DOMAIN patterns :
                                  TooOld(patterns[i]) /\ patterns[i].usageCount < 5})
          /\ \A i \in DOMAIN patterns :
                (patterns[i].usageCount >= 5 \/ ~TooOld(patterns[i]))
                => \E j \in DOMAIN AfterPrune : AfterPrune[j] = patterns[i]
          /\ \A j \in DOMAIN patterns' :
                \E i \in DOMAIN patterns :
                    /\ patterns[i].patternId = patterns'[j].patternId
                    /\ ~(TooOld(patterns[i]) /\ patterns[i].usageCount < 5)]_vars

\* consolidate has pruned a pattern a day after maxPatternAgeDays and kept
\* an old one that was used five times
C27_Witness ==
    /\ last.op = "consolidate"
    /\ last.result.prunedPatterns > 0
    /\ now = maxPatternAgeDays + 1
    /\ \E i \in DOMAIN patterns :
          /\ patterns[i].usageCount >= 5
          /\ TooOld(patterns[i])

\* consolidate has kept a barely used pattern that was updated exactly
\* maxPatternAgeDays ago
C27_WitnessOnTheDay ==
    /\ last.op = "consolidate"
    /\ last.result.prunedPatterns = 0
    /\ \E i \in DOMAIN patterns :
          /\ patterns[i].usageCount < 5
          /\ now - patterns[i].updatedAt = maxPatternAgeDays

\* Some pair of embeddings has different lengths, and some embedding is zero
OddEmbeddings(objs) ==
    /\ \E i, j \in DOMAIN objs : Len(objs[i].embedding) # Len(objs[j].embedding)
    /\ \E i \in DOMAIN objs : \A k \in DOMAIN objs[i].embedding : objs[i].embedding[k] = 0

\* C28: consolidate completes without throwing, whatever the embeddings of
\* the memories and patterns and even if a listener throws, and it emits
\* one memory_consolidated event, to every listener, whose memoriesCount
\* is the number of memories after the four phases.
C28_ConsolidateCompletes ==
    last.op = "consolidate" =>
        /\ last.outcome = "returned"
        /\ last.event = [type |-> "memory_consolidated", memoriesCount |-> Len(memories)]
        /\ Len(last.emitted) = Len(config.eventListeners)
        /\ \A i \in DOMAIN config.eventListeners :
              last.emitted[i] = [listener |-> config.eventListeners[i], event |-> last.event]
        /\ \A f \in {"removedDuplicates", "contradictionsDetected",
                     "prunedPatterns", "mergedPatterns"} : last.result[f] \in Nat

\* consolidate has returned with a throwing listener registered, over
\* memories and patterns with zero and with mismatched embeddings
C28_Witness ==
    /\ last.op = "consolidate"
    /\ last.prev.op # "consolidate"
    /\ Len(last.emitted) = 2
    /\ last.emitted[1].listener = "throwing"
    /\ OddEmbeddings(memories)
    /\ OddEmbeddings(patterns)

\* ---------------------------------------------------------------- C29

\* The memory returned at place i of the last retrieve
Returned(i) == EntryOf(memories, last.results[i].memoryId)

\* What the same call returns from a bank constructed with the default
\* mmrLambda
DefaultLambdaIds ==
    LET res == Retrieve([config EXCEPT !.mmrLambda = mmrLambdaDefault],
                        memories, last.query, last.k)
    IN [i \in 1..Len(res) |-> res[i].memoryId]

\* C29: with mmrLambda = 1.0 retrieve returns the memories in non-increasing
\* order of relevance to the query, the same order as the plain relevance
\* ranking: the relevance reported never rises along the list, no memory
\* left out ranks before a returned one, and equally relevant memories
\* keep their insertion order.
C29_LambdaOneIsRelevanceOrder ==
    (last.op = "retrieve" /\ config.mmrLambda = 10) =>
        /\ \A i \in 1..Len(last.results) :
              last.results[i].relevanceScore = Relevance(Returned(i))
        /\ \A i, j \in 1..Len(last.results) :
              i < j => /\ last.results[i].relevanceScore >= last.results[j].relevanceScore
                       /\ SortedBefore(Returned(i), Returned(j))
        /\ \A i \in 1..Len(last.results) :
              \A d \in Remaining(Len(last.results)) : SortedBefore(Returned(i), d)

\* A retrieve with mmrLambda = 1.0 of two memories or more that were not
\* stored in relevance order, from a store in which the default mmrLambda
\* returns another list
C29_Witness ==
    /\ last.op = "retrieve"
    /\ config.mmrLambda = 10
    /\ Len(last.results) >= 2
    /\ Position(Returned(1)) > Position(Returned(2))
    /\ Relevance(Returned(1)) > Relevance(Returned(2))
    /\ DefaultLambdaIds # [i \in 1..Len(last.results) |-> last.results[i].memoryId]

\* ---------------------------------------------------------------- C30

\* C30: a recordFailure call made in the half-open state leaves the breaker
\* open, with the state change stamped at the time of the call and the
\* recovery timeout scheduled, whether or not the failure would have tripped
\* a closed circuit.
C30_HalfOpenFailureOpens ==
    (last.op = "recordFailure" /\ last.from = "half-open") =>
        /\ breaker.state = "open"
        /\ breaker.lastStateChange = dateNow
        /\ breaker.recoveryTimer = dateNow + recoveryTimeout
        /\ last.emitted[1] = "stateChange"

\* recordFailure was called in half-open with too few failures in the window
\* to trip a closed circuit
C30_Witness ==
    /\ last.op = "recordFailure"
    /\ last.from = "half-open"
    /\ ~last.tripped
    /\ breaker.state = "open"

\* ---------------------------------------------------------------- C31

AllowedMoves ==
    {<<"closed", "open">>, <<"open", "half-open">>,
     <<"half-open", "closed">>, <<"half-open", "open">>}

\* C38: under canExecute, recordSuccess, recordFailure and the recovery
\* timer the state only changes closed->open, open->half-open,
\* half-open->closed or half-open->open; in particular an open breaker is
\* never closed in one step, no recordSuccess call moves the breaker to
\* open, and the success counter is below successThreshold before and
\* after every step.
C38_OnlyAllowedMoves ==
    [][/\ breaker'.state # breaker.state =>
             <<breaker.state, breaker'.state>> \in AllowedMoves
       /\ ~(breaker.state = "open" /\ breaker'.state = "closed")
       /\ (last'.op = "recordSuccess" /\ breaker.state # "open") =>
             breaker'.state # "open"
       /\ breaker.successes < successThreshold
       /\ breaker'.successes < successThreshold]_vars

\* The recovery timeout of an earlier opening fired on a breaker that had
\* been closed again in the meantime
C38_Witness ==
    /\ last.op = "recoveryCheck"
    /\ last.from = "closed"
    /\ breaker.state = "closed"
    /\ breaker.totalRequests >= successThreshold + 1

\* ---------------------------------------------------------------- C35

\* The types of the entries of an evolutionHistory
EntryTypes(p) == {p.evolutionHistory[i].type : i \in 1..Len(p.evolutionHistory)}

\* C35: an evolvePattern call appends entries of type improvement or prune
\* only; no stored pattern ever holds an entry of type split; and a step
\* that appends an entry of type merge is a consolidate call.
C35_EvolutionTypes ==
    [][/\ \A p \in StoredPatterns' :
             /\ "split" \notin EntryTypes(p)
             /\ \A e \in GainedEntries(p, patterns) :
                   /\ last'.op = "evolvePattern" => e.type \in {"improvement", "prune"}
                   /\ e.type = "merge" => last'.op = "consolidate"
                   /\ last'.op \in {"evolvePattern", "consolidate"}]_vars

\* A pattern that was evolved by a delta below -0.1 and then absorbed
\* another pattern
C35_Witness ==
    /\ last.op = "consolidate"
    /\ \E p \in StoredPatterns :
          \E i, j \in 1..Len(p.evolutionHistory) :
              /\ i < j
              /\ p.evolutionHistory[i].type = "prune"
              /\ p.evolutionHistory[j].type = "merge"

\* ---------------------------------------------------------------- C36

\* C36: the removedDuplicates a consolidate call returns is the number of
\* memories its dedup pass deleted, the memory count before the pass less
\* the count after it.
C36_RemovedCountIsDeleted ==
    [][last'.op = "consolidate" =>
          last'.result.removedDuplicates = Len(memories) - Len(AfterDedup)]_vars

\* ---------------------------------------------------------------- C37

\* C37: the usageCount summed over the stored patterns is the same before
\* and after the merge step of a consolidate call.
C37_UsageConserved ==
    [][last'.op = "consolidate" =>
          TotalUsage(patterns') = TotalUsage(BeforeMerge)]_vars

\* ---------------------------------------------------------------- C34

\* The places in the log of the calls of one kind made for publish call p
LogPlaces(call, p) ==
    {i \in 1..Len(busLog) : busLog[i].call = call /\ busLog[i].publish = p}

\* C34: every publish call has handed its event to eventStore.append, once,
\* also when no handler is subscribed; the dispatcher is called for it at
\* most once, after the append and only once the append has resolved, with
\* the event and a non-empty list of handlers; a publish call whose append
\* was rejected is rejected and has dispatched nothing; and a publish call
\* that found no handler has resolved without a call of the dispatcher.
C34_StoreBeforeDispatch ==
    \A p \in 1..Len(publishes) :
        /\ Cardinality(LogPlaces("append", p)) = 1
        /\ \A i \in LogPlaces("append", p) : busLog[i].event = publishes[p].event
        /\ Cardinality(LogPlaces("dispatch", p)) <= 1
        /\ \A j \in LogPlaces("dispatch", p) :
              /\ \A i \in LogPlaces("append", p) : i < j
              /\ publishes[p].appended = "resolved"
              /\ busLog[j].event = publishes[p].event
              /\ busLog[j].handlers # <<>>
        /\ publishes[p].appended = "rejected" =>
              /\ LogPlaces("dispatch", p) = {}
              /\ publishes[p].outcome = "rejected"
        /\ (publishes[p].appended = "resolved" /\ publishes[p].found = <<>>) =>
              /\ LogPlaces("dispatch", p) = {}
              /\ publishes[p].outcome = "resolved"

\* Two publish calls have ended: one was dispatched to a typed and a
\* wildcard handler after its append, the other was rejected by the store
\* while a handler for its event was subscribed
C34_Witness ==
    /\ Len(publishes) = 2
    /\ \A p \in 1..2 : publishes[p].pc = "done"
    /\ \E p \in 1..2 :
          /\ Len(publishes[p].found) = 2
          /\ LogPlaces("dispatch", p) # {}
    /\ \E p \in 1..2 :
          /\ publishes[p].appended = "rejected"
          /\ AllHandlers(publishes[p].event.type) # <<>>
    /\ Len(busLog) = 3

\* ---------------------------------------------------------------- C33

\* C33: an execute call that finds its task with a status other than
\* pending is rejected with an error at that point, having written no
\* status, run no executor and published no event; the call does nothing
\* after that.
C33_ExecuteRejectsNonPending ==
    [][/\ (last'.op = "execute.findById"
              /\ last'.read \in {"running", "completed", "failed", "cancelled"}) =>
             /\ taskCalls'[last'.call].pc = "done"
             /\ taskCalls'[last'.call].outcome = "rejected"
             /\ taskCalls'[last'.call].error = "Task cannot be executed"
             /\ UNCHANGED <<tasks, executorLog, published>>
       /\ (last'.op = "execute" /\ Len(taskCalls') > Len(taskCalls)) =>
             UNCHANGED <<tasks, executorLog, published>>
       /\ \A c \in 1..Len(taskCalls) :
             taskCalls[c].pc = "done" => taskCalls'[c] = taskCalls[c]]_vars

\* An execute call was rejected for a task that another execute call has
\* running
C33_Witness ==
    /\ last.op = "execute.findById"
    /\ last.read = "running"
    /\ taskCalls[last.call].outcome = "rejected"
    /\ tasks[taskCalls[last.call].task] = "running"
    /\ Len(executorLog) = 1

\* ---------------------------------------------------------------- C39

\* The number of executor.run calls made for a task
RunCalls(id) ==
    Cardinality({i \in 1..Len(executorLog) :
                    executorLog[i].call = "run" /\ executorLog[i].taskId = id})

====
